---- MODULE Spec2Model ----
(***************************************************************************)
(* A model of conversion.py: one mosaic job of the batch loop.  The job    *)
(* reads the position table XYZPositions.txt, derives the tile overlap     *)
(* from the stage step, allocates a memory-mapped canvas, inserts every    *)
(* tile through a thread pool, flushes the canvas and writes the OME-TIFF. *)
(*                                                                         *)
(* Stage coordinates and micron sizes are integers (the code uses floats); *)
(* the overlap is rounded as Python's round() does, half to even, on the   *)
(* exact quotient.  One insert_tile call is one step: its read, its crops  *)
(* and its single slice assignment.                                        *)
(***************************************************************************)
EXTENDS Integers, Sequences, FiniteSets, TLC

\* ------------------------------------------------------------- bounds
MaxRows == 2
MaxCols == 3
MaxZ == 2
MaxTiles == 6
MaxPixels == 800
MicronsPerPixel == 2
MaxGeomTile == 4
MaxGeomRows == 3
MaxGeomCols == 3
MaxGeomTiles == 9

\* -------------------------------------------------- program constants
ExpectedOverlap == 16
num_threads == 8
FillValue == 0

\* ------------------------------------------------------------ helpers
Min(S) == CHOOSE m \in S : \A e \in S : m <= e

Max(S) == CHOOSE m \in S : \A e \in S : m >= e

Lesser(a, b) == IF a <= b THEN a ELSE b

Greater(a, b) == IF a >= b THEN a ELSE b

\* Python's round() on num/den (den > 0): to the nearest integer, a tie to
\* the even one.
round(num, den) ==
    LET q == num \div den
        r == num - q * den
    IN  IF 2 * r < den THEN q
        ELSE IF 2 * r > den THEN q + 1
        ELSE IF q % 2 = 0 THEN q ELSE q + 1

\* A Python slice start:stop; all = TRUE is the full slice ":".
slice(a, b) == [start |-> a, stop |-> b, all |-> FALSE]

FullSlice == [start |-> 0, stop |-> 0, all |-> TRUE]

\* An index of a slice clipped to a sequence of length n (a negative index
\* counts from the end).
ClipIndex(i, n) == IF i < 0 THEN Greater(0, n + i) ELSE Lesser(i, n)

SliceStart(s, n) == IF s.all THEN 0 ELSE ClipIndex(s.start, n)

SliceStop(s, n) == IF s.all THEN n ELSE ClipIndex(s.stop, n)

SliceLen(s, n) == Greater(0, SliceStop(s, n) - SliceStart(s, n))

\* ------------------------------------------------- the position table
\* Row i of a table acquired in snake order over nr x nc x nz positions:
\* plane by plane, row by row, even rows low-to-high column, odd rows
\* high-to-low.  xs, ys are the stage steps.
SnakeRow(i, nr, nc, xs, ys) ==
    LET k == i - 1
        z == k \div (nr * nc)
        r == (k % (nr * nc)) \div nc
        j == k % nc
        c == IF r % 2 = 0 THEN j ELSE nc - 1 - j
    IN  [tileNumber |-> i, X |-> c * xs, Y |-> r * ys, R |-> r, C |-> c, Z |-> z]

SnakeTable(nr, nc, nz, xs, ys) ==
    [i \in 1..(nr * nc * nz) |-> SnakeRow(i, nr, nc, xs, ys)]

\* The table with one more row: a second tile at the position of row d
\* (d = 0: none).
WithDuplicate(t, d) ==
    IF d = 0 THEN t
    ELSE Append(t, [t[d] EXCEPT !.tileNumber = Len(t) + 1])

VARIABLES
    XYZfile,        \* XYZPositions.txt on disk: "ok", "missing", "unreadable"
                    \* or "badcolumns" (fewer columns than the script reads)
    XYZdata,        \* the rows of XYZPositions.txt
    tile_xsize,     \* columns 10, 11 of row 0: the tile size in pixels
    tile_ysize,
    wMicrons,       \* columns 8, 9 of row 0: the tile size in microns
    hMicrons,
    files,          \* tileNumber -> the tile file on disk
    pc,             \* the phase of the job
    overlap_x,      \* -1 until computed
    overlap_y,
    overlap,
    img_shape,      \* <<z, y, x>>, <<>> until computed
    datFiles,       \* the scratch files in the output directory
    temp_filename,  \* the main loop's variable: Unbound or a scratch file
    img_stitched,   \* the canvas: planes of lines of uint8
    writes,         \* per pixel, how many tile assignments covered it
    submitted,      \* how many rows of XYZdata were given to the pool
    done,           \* the row indices whose insert_tile returned
    placed,         \* row index -> the placement its insert_tile computed
    flagged,        \* the entries of flagged_images.csv
    outputImage,    \* "absent" | "partial" | "complete": the OME-TIFF
    output_dir,     \* the OME-TIFF files in the output directory
    error,          \* the message of the exception that ended the job
    args,           \* the parsed command line
    compression_parameter,  \* Unbound, None or <<codec, quality>>
    outputExtension,
    tree,           \* directory name -> its content, under the input directory
    image_paths,    \* the directories found to hold an XYZPositions.txt
    job,            \* the index in image_paths of the loop's iteration
    mainpc,         \* where the script is
    exit_status,    \* -1 while the script runs
    results,        \* how the iterations so far ended
    reference,      \* the MosTif planes next to the tile directory
    container,      \* what was written of the OME-TIFF's base image
    levels,         \* the sub-levels written, each an array of planes
    checked,        \* the planes of the output the validator compared
    validated       \* whether the validator ran in this iteration

inputs == <<XYZfile, XYZdata, tile_xsize, tile_ysize, wMicrons, hMicrons, files>>

metaVars == <<overlap_x, overlap_y, overlap, img_shape>>

canvasVars == <<img_stitched, writes>>

poolVars == <<submitted, done, placed>>

fsVars == <<datFiles, temp_filename, outputImage, output_dir>>

mainVars == <<args, compression_parameter, outputExtension, tree, image_paths,
              job, mainpc, exit_status, results>>

encVars == <<reference, container, levels, checked, validated>>

vars == <<inputs, pc, metaVars, canvasVars, poolVars, fsVars, flagged, error,
          mainVars, encVars>>

\* ------------------------------------------- stitch_tiles: the metadata
Rows == {XYZdata[i].R : i \in DOMAIN XYZdata}

Cols == {XYZdata[i].C : i \in DOMAIN XYZdata}

Zs == {XYZdata[i].Z : i \in DOMAIN XYZdata}

R_min == Min(Rows)

C_min == Min(Cols)

Z_min == Min(Zs)

R_max == Max(Rows)

C_max == Max(Cols)

nx == Cardinality(Cols)

ny == Cardinality(Rows)

nz == Cardinality(Zs)

ZIndex_Descending(z) == Cardinality({v \in Zs : v > z})

\* Zs_list.index(z): the rank of z among the sorted distinct z values.
ZIndex(z) == Cardinality({v \in Zs : v < z})

\* The tile files in the directory, whose most common extension is ext.
files_ext == {n \in DOMAIN files : files[n].present}


\* A name the script has not assigned yet, and Python's None.
Unbound == <<"unbound">>

None == <<>>

\* The tile directory of the loop's iteration.
tiles_path == image_paths[job]

\* The name stitch_tiles gives the job's scratch file: a fresh uuid and the
\* name of the tile directory.
filename == <<"uuid", job, tiles_path, ".dat">>

\* A path is the sequence of its components.
basename(path) == path[Len(path)]

\* The path of the OME-TIFF in the output directory.
outputImagePath == <<basename(tiles_path), outputExtension>>

\* The output directory once TiffWriter has left the job's file in the
\* given state: a file of that name is replaced.
Saved(state) ==
    [p \in DOMAIN output_dir \cup {outputImagePath} |->
        IF p = outputImagePath THEN [source |-> tiles_path, state |-> state]
        ELSE output_dir[p]]

ExceptHandler_Uncaught(msg, dat) ==
    /\ datFiles' = dat
    /\ flagged' = flagged
    /\ error' = msg
    /\ pc' = "UNCAUGHT"

\* The main loop's except handler: the scratch file is removed only when the
\* variable temp_filename exists and names an existing file; the error goes
\* to flagged_images.csv.  dat is the output directory as the exception left it.
ExceptHandler(msg, dat) ==
    /\ datFiles' = IF temp_filename # Unbound /\ temp_filename \in dat
                   THEN dat \ {temp_filename} ELSE dat
    /\ flagged' = Append(flagged, [kind |-> "job", path |-> tiles_path, tile |-> 0,
                                 msg |-> msg])
    /\ error' = msg
    /\ pc' = "FAILED"

ParseMetadata_Unchecked ==
    /\ pc = "PARSING_METADATA"
    /\ pc' = "COMPUTING_OVERLAP"
    /\ UNCHANGED <<inputs, metaVars, canvasVars, poolVars, fsVars, flagged, error,
                   mainVars, encVars>>

\* Reading XYZPositions.txt, its columns, and the tiles' file extension.
ParseMetadata ==
    /\ pc = "PARSING_METADATA"
    /\ IF XYZfile \in {"missing", "unreadable"}
       THEN ExceptHandler("Error reading the XYZPositions.txt file", datFiles)
       ELSE IF XYZfile = "badcolumns"
       THEN ExceptHandler("IndexError", datFiles)
       ELSE IF files_ext = {}
       THEN ExceptHandler("ValueError", datFiles)
       ELSE /\ pc' = "COMPUTING_OVERLAP"
            /\ UNCHANGED <<datFiles, flagged, error>>
    /\ UNCHANGED <<inputs, metaVars, canvasVars, poolVars, temp_filename, outputImage, output_dir>>
    /\ UNCHANGED <<mainVars, encVars>>

\* The rows of the table at (r, c, z), in table order.
TilesAt(r, c, z) ==
    SelectSeq(XYZdata, LAMBDA t : t.R = r /\ t.C = c /\ t.Z = z)

\* The columns present in row R_min of plane Z_min, the rows present in
\* column C_min of plane Z_min.
RefCols == {XYZdata[i].C : i \in {j \in DOMAIN XYZdata :
                XYZdata[j].Z = Z_min /\ XYZdata[j].R = R_min}}

RefRows == {XYZdata[i].R : i \in {j \in DOMAIN XYZdata :
                XYZdata[j].Z = Z_min /\ XYZdata[j].C = C_min}}

\* The overlap is computed unless nx = 1 or ny = 1.
OverlapComputed == nx # 1 /\ ny # 1

OverlapPx(tilesize, microns, step) == round(tilesize * (microns - step), microns)

OverlapAccepted_XOnly(ox, oy) == ox = ExpectedOverlap

OverlapAccepted(ox, oy) == ox = ExpectedOverlap /\ oy = ExpectedOverlap

ComputeOverlap ==
    /\ pc = "COMPUTING_OVERLAP"
    /\ IF ~OverlapComputed
       THEN /\ overlap' = 0
            /\ pc' = "ALLOCATING_CANVAS"
            /\ UNCHANGED <<overlap_x, overlap_y, datFiles, flagged, error>>
       ELSE IF RefCols = {}
       THEN /\ ExceptHandler("IndexError", datFiles)
            /\ UNCHANGED <<overlap_x, overlap_y, overlap>>
       ELSE LET min_C == Min(RefCols)
                x_init == TilesAt(R_min, min_C, Z_min)
                x_final == TilesAt(R_min, min_C + 1, Z_min)
            IN  IF Len(x_final) = 0 \/ Len(x_init) = 0
                THEN /\ ExceptHandler("IndexError", datFiles)
                     /\ UNCHANGED <<overlap_x, overlap_y, overlap>>
                ELSE LET x_step == x_final[1].X - x_init[1].X
                         ox == OverlapPx(tile_xsize, wMicrons, x_step)
                     IN  IF RefRows = {}
                         THEN /\ ExceptHandler("IndexError", datFiles)
                              /\ overlap_x' = ox
                              /\ UNCHANGED <<overlap_y, overlap>>
                         ELSE LET min_R == Min(RefRows)
                                  y_init == TilesAt(min_R, C_min, Z_min)
                                  y_final == TilesAt(min_R + 1, C_min, Z_min)
                              IN  IF Len(y_final) = 0 \/ Len(y_init) = 0
                                  THEN /\ ExceptHandler("IndexError", datFiles)
                                       /\ overlap_x' = ox
                                       /\ UNCHANGED <<overlap_y, overlap>>
                                  ELSE IF Len(y_final) # 1 \/ Len(y_init) # 1
                                          \/ Len(x_final) # 1 \/ Len(x_init) # 1
                                  THEN /\ ExceptHandler("There are two or more tiles that belong to the same row and column.", datFiles)
                                       /\ overlap_x' = ox
                                       /\ UNCHANGED <<overlap_y, overlap>>
                                  ELSE LET y_step == y_final[1].Y - y_init[1].Y
                                           oy == OverlapPx(tile_ysize, hMicrons, y_step)
                                       IN  /\ overlap_x' = ox
                                           /\ overlap_y' = oy
                                           /\ IF OverlapAccepted(ox, oy)
                                              THEN /\ overlap' = ox
                                                   /\ pc' = "ALLOCATING_CANVAS"
                                                   /\ UNCHANGED <<datFiles, flagged, error>>
                                              ELSE /\ ExceptHandler("Number of pixels of overlap in the x and y directions is not 16.", datFiles)
                                                   /\ UNCHANGED overlap
    /\ UNCHANGED <<inputs, img_shape, canvasVars, poolVars, temp_filename, outputImage, output_dir>>
    /\ UNCHANGED <<mainVars, encVars>>

\* The pixel size of the stitched image along x and along y.
stitched_x_NoOverlap == (tile_xsize - overlap) * nx

stitched_x == (tile_xsize - overlap) * nx + overlap

stitched_y == (tile_ysize - overlap) * ny + overlap

stitched_z == nz

ComputeShape ==
    /\ pc = "ALLOCATING_CANVAS"
    /\ img_shape = <<>>
    /\ img_shape' = <<stitched_z, stitched_y, stitched_x>>
    /\ UNCHANGED <<inputs, pc, overlap_x, overlap_y, overlap, canvasVars, poolVars,
                   fsVars, flagged, error>>
    /\ UNCHANGED <<mainVars, encVars>>


\* np.memmap(filename, mode='w+', shape=img_shape): the file is created and
\* the canvas starts at the fill value.
Pixels ==
    {<<z, y, x>> : z \in 0..(img_shape[1] - 1), y \in 0..(img_shape[2] - 1),
                   x \in 0..(img_shape[3] - 1)}

\* An array of the given shape holding v everywhere; plane z, line y, column
\* x of an array a (all counted from 0) is a[z + 1][y + 1][x + 1].
Filled(shape, v) ==
    [z \in 1..shape[1] |-> [y \in 1..shape[2] |-> [x \in 1..shape[3] |-> v]]]

At(a, p) == a[p[1] + 1][p[2] + 1][p[3] + 1]

CreateMemmap ==
    /\ pc = "ALLOCATING_CANVAS"
    /\ img_shape # <<>>
    /\ datFiles' = datFiles \cup {filename}
    /\ img_stitched' = Filled(img_shape, FillValue)
    /\ writes' = Filled(img_shape, 0)
    /\ pc' = "PLACING_TILES"
    /\ UNCHANGED <<inputs, metaVars, poolVars, temp_filename, outputImage, output_dir, flagged, error>>
    /\ UNCHANGED <<mainVars, encVars>>

\* np.memmap creates the file and then fails to size or map it (OSError).
CreateMemmapFails ==
    /\ pc = "ALLOCATING_CANVAS"
    /\ img_shape # <<>>
    /\ ExceptHandler("OSError", datFiles \cup {filename})
    /\ UNCHANGED <<inputs, metaVars, canvasVars, poolVars, temp_filename, outputImage, output_dir>>
    /\ UNCHANGED <<mainVars, encVars>>

\* ------------------------------------------------------- insert_tile
\* The pixel (y, x) of the image in file Tile<tileNumber>: a uint8 that is
\* never the fill value and differs between neighbouring pixels and tiles.
TilePixel(tileNumber, y, x) == ((tileNumber * 97 + y * 31 + x * 7) % 255) + 1

yRange_Uncropped(R, Rmax, tilesize_y, ov) ==
    slice(R * (tilesize_y - ov), (R + 1) * (tilesize_y - ov) + ov)

yRange(R, Rmax, tilesize_y, ov) ==
    IF R = Rmax
    THEN slice(R * (tilesize_y - ov), (R + 1) * (tilesize_y - ov) + ov)
    ELSE slice(R * (tilesize_y - ov), (R + 1) * (tilesize_y - ov))

yCrop(R, Rmax, tilesize_y, ov) ==
    IF R = Rmax THEN FullSlice ELSE slice(0, tilesize_y - ov)

xRange_Uncropped(R, C, Cmax, tilesize_x, ov) ==
    IF R % 2 = 0
    THEN IF C = Cmax
         THEN slice(C * (tilesize_x - ov), (C + 1) * (tilesize_x - ov) + ov)
         ELSE slice(C * (tilesize_x - ov), (C + 1) * (tilesize_x - ov))
    ELSE slice(C * (tilesize_x - ov), C * (tilesize_x - ov) + tilesize_x)

xRange_Mirrored(R, C, Cmax, tilesize_x, ov) ==
    IF R % 2 = 0
    THEN IF C = Cmax
         THEN slice(C * (tilesize_x - ov), (C + 1) * (tilesize_x - ov) + ov)
         ELSE slice(C * (tilesize_x - ov), (C + 1) * (tilesize_x - ov))
    ELSE IF Cmax - C = 0
         THEN slice(0, tilesize_x)
         ELSE slice((Cmax - C - 1) * (tilesize_x - ov) + tilesize_x,
                    (Cmax - C) * (tilesize_x - ov) + tilesize_x)

xRange(R, C, Cmax, tilesize_x, ov) ==
    IF R % 2 = 0
    THEN IF C = Cmax
         THEN slice(C * (tilesize_x - ov), (C + 1) * (tilesize_x - ov) + ov)
         ELSE slice(C * (tilesize_x - ov), (C + 1) * (tilesize_x - ov))
    ELSE IF C = 0
         THEN slice(0, tilesize_x)
         ELSE slice((C - 1) * (tilesize_x - ov) + tilesize_x,
                    C * (tilesize_x - ov) + tilesize_x)

xCrop_AlwaysRight(R, C, Cmax, tilesize_x, ov) ==
    IF R % 2 = 0
    THEN IF C = Cmax THEN FullSlice ELSE slice(0, tilesize_x - ov)
    ELSE IF C = 0 THEN FullSlice ELSE slice(0, tilesize_x - ov)

xCrop(R, C, Cmax, tilesize_x, ov) ==
    IF R % 2 = 0
    THEN IF C = Cmax THEN FullSlice ELSE slice(0, tilesize_x - ov)
    ELSE IF C = 0 THEN FullSlice ELSE slice(ov, tilesize_x)

\* numpy's rule for tile -> region along one axis: equal lengths, or a tile
\* of length 1, which is repeated.
Broadcasts(tileLen, regionLen) == tileLen = regionLen \/ tileLen = 1

Placement_ByAcquisition(t, f, Rmax, Cmax, Z, tsx, tsy, ov, H, W) ==
    LET col == (t.tileNumber - 1) % (Cmax + 1)
        yr == yRange(t.R, Rmax, tsy, ov)
        xr == xRange(t.R, col, Cmax, tsx, ov)
        yc == yCrop(t.R, Rmax, tsy, ov)
        xc == xCrop(t.R, col, Cmax, tsx, ov)
    IN  [z   |-> Z,
         y0  |-> SliceStart(yr, H), h |-> SliceLen(yr, H),
         x0  |-> SliceStart(xr, W), w |-> SliceLen(xr, W),
         cy0 |-> SliceStart(yc, f.h), th |-> SliceLen(yc, f.h),
         cx0 |-> SliceStart(xc, f.w), tw |-> SliceLen(xc, f.w),
         ok  |-> /\ f.present
                 /\ Broadcasts(SliceLen(yc, f.h), SliceLen(yr, H))
                 /\ Broadcasts(SliceLen(xc, f.w), SliceLen(xr, W))]

\* What one insert_tile call does for row t of the table on a canvas of
\* Zn x H x W pixels, given the tile file f: the clipped destination, the
\* crop of the tile, and whether the assignment is accepted.
Placement(t, f, Rmax, Cmax, Z, tsx, tsy, ov, H, W) ==
    LET yr == yRange(t.R, Rmax, tsy, ov)
        xr == xRange(t.R, t.C, Cmax, tsx, ov)
        yc == yCrop(t.R, Rmax, tsy, ov)
        xc == xCrop(t.R, t.C, Cmax, tsx, ov)
    IN  [z   |-> Z,
         y0  |-> SliceStart(yr, H), h |-> SliceLen(yr, H),
         x0  |-> SliceStart(xr, W), w |-> SliceLen(xr, W),
         cy0 |-> SliceStart(yc, f.h), th |-> SliceLen(yc, f.h),
         cx0 |-> SliceStart(xc, f.w), tw |-> SliceLen(xc, f.w),
         ok  |-> /\ f.present
                 /\ Broadcasts(SliceLen(yc, f.h), SliceLen(yr, H))
                 /\ Broadcasts(SliceLen(xc, f.w), SliceLen(xr, W))]

InRegion(p, pl) ==
    /\ p[1] = pl.z
    /\ pl.y0 <= p[2] /\ p[2] < pl.y0 + pl.h
    /\ pl.x0 <= p[3] /\ p[3] < pl.x0 + pl.w

\* The value the assignment img_stitched[Z, yRange, xRange] = tile puts at p.
Assigned(tileNumber, p, pl) ==
    TilePixel(tileNumber,
              pl.cy0 + (IF pl.th = 1 THEN 0 ELSE p[2] - pl.y0),
              pl.cx0 + (IF pl.tw = 1 THEN 0 ELSE p[3] - pl.x0))

\* The arguments stitch_tiles passes for row i of the table.
TaskPlacement(i) ==
    Placement(XYZdata[i], files[XYZdata[i].tileNumber], R_max, C_max,
              ZIndex(XYZdata[i].Z), tile_xsize, tile_ysize, overlap,
              img_shape[2], img_shape[3])

Stored_WholeLines(img, tileNumber, pl) ==
    IF ~pl.ok \/ pl.h = 0 \/ pl.w = 0 THEN img
    ELSE [img EXCEPT ![pl.z + 1] =
            [y \in DOMAIN @ |->
                IF pl.y0 < y /\ y <= pl.y0 + pl.h
                THEN [x \in DOMAIN @[y] |->
                        Assigned(tileNumber, <<pl.z, y - 1, x - 1>>, pl)]
                ELSE @[y]]]

\* The canvas after insert_tile for row i on canvas img: the assignment
\* img_stitched[Z, yRange, xRange] = tile, or nothing when it raised.
Stored(img, tileNumber, pl) ==
    IF ~pl.ok \/ pl.h = 0 \/ pl.w = 0 THEN img
    ELSE [img EXCEPT ![pl.z + 1] =
            [y \in DOMAIN @ |->
                IF pl.y0 < y /\ y <= pl.y0 + pl.h
                THEN [x \in DOMAIN @[y] |->
                        IF pl.x0 < x /\ x <= pl.x0 + pl.w
                        THEN Assigned(tileNumber, <<pl.z, y - 1, x - 1>>, pl)
                        ELSE @[y][x]]
                ELSE @[y]]]

Inserted(img, i) == Stored(img, XYZdata[i].tileNumber, TaskPlacement(i))

\* The assignment counts after an accepted assignment to the destination of pl.
Counted(w, pl) ==
    IF ~pl.ok \/ pl.h = 0 \/ pl.w = 0 THEN w
    ELSE [w EXCEPT ![pl.z + 1] =
            [y \in DOMAIN @ |->
                IF pl.y0 < y /\ y <= pl.y0 + pl.h
                THEN [x \in DOMAIN @[y] |->
                        IF pl.x0 < x /\ x <= pl.x0 + pl.w THEN @[y][x] + 1 ELSE @[y][x]]
                ELSE @[y]]]

\* --------------------------------------------------- the thread pool
\* The main thread submits the rows in table order.
Submit ==
    /\ pc = "PLACING_TILES"
    /\ submitted < Len(XYZdata)
    /\ submitted' = submitted + 1
    /\ UNCHANGED <<inputs, pc, metaVars, canvasVars, done, placed, fsVars, flagged, error>>
    /\ UNCHANGED <<mainVars, encVars>>

\* Task i is held by a worker: it was submitted, has not returned, and fewer
\* than num_threads tasks submitted before it are still unfinished (the
\* workers take the queued tasks oldest first).
Running(i) ==
    /\ i \in 1..submitted
    /\ i \notin done
    /\ Cardinality({j \in 1..(i - 1) : j \notin done}) < num_threads

\* A worker runs insert_tile for row i: the tile is written, or the
\* exception is logged and swallowed.
insert_tile(i) ==
    /\ pc = "PLACING_TILES"
    /\ Running(i)
    /\ \E pl \in {TaskPlacement(i)} :
           /\ img_stitched' = Stored(img_stitched, XYZdata[i].tileNumber, pl)
           /\ writes' = Counted(writes, pl)
           /\ flagged' = IF pl.ok THEN flagged
                         ELSE Append(flagged, [kind |-> "tile",
                                               path |-> tiles_path,
                                               tile |-> XYZdata[i].tileNumber,
                                               msg |-> "could not be read or inserted"])
           /\ placed' = [j \in done \cup {i} |-> IF j = i THEN pl ELSE placed[j]]
    /\ done' = done \cup {i}
    /\ UNCHANGED <<inputs, pc, metaVars, submitted, fsVars, error>>
    /\ UNCHANGED <<mainVars, encVars>>

AllTasksDone_Submitted == submitted = Len(XYZdata)

AllTasksDone == submitted = Len(XYZdata) /\ done = DOMAIN XYZdata

\* The pool is joined, the canvas is flushed, stitch_tiles returns and the
\* main loop stores the scratch file's name and reopens it.
Flush ==
    /\ pc = "PLACING_TILES"
    /\ AllTasksDone
    /\ temp_filename' = filename
    /\ pc' = "ENCODING"
    /\ UNCHANGED <<inputs, metaVars, canvasVars, poolVars, datFiles, outputImage, output_dir, flagged, error>>
    /\ UNCHANGED <<mainVars, encVars>>

\* img_stitched.flush() raises (an I/O error of the backing file).
FlushFails ==
    /\ pc = "PLACING_TILES"
    /\ AllTasksDone
    /\ ExceptHandler("OSError", datFiles)
    /\ UNCHANGED <<inputs, metaVars, canvasVars, poolVars, temp_filename, outputImage, output_dir>>
    /\ UNCHANGED <<mainVars, encVars>>

\* ------------------------------------------------------- the encoder
\* The container is written and the scratch file removed.
Encode ==
    /\ pc = "ENCODING"
    /\ outputImage' = "complete"
    /\ output_dir' = Saved("complete")
    /\ datFiles' = datFiles \ {temp_filename}
    /\ pc' = "DONE"
    /\ UNCHANGED <<inputs, metaVars, canvasVars, poolVars, temp_filename, flagged, error>>
    /\ UNCHANGED <<mainVars, encVars>>

\* TiffWriter fails to open the file, or fails while writing it.
EncodeFails ==
    /\ pc = "ENCODING"
    /\ outputImage' \in {outputImage, "partial"}
    /\ output_dir' = IF outputImage' = "partial" THEN Saved("partial") ELSE output_dir
    /\ ExceptHandler("EncodeError", datFiles)
    /\ UNCHANGED <<inputs, metaVars, canvasVars, poolVars, temp_filename>>
    /\ UNCHANGED <<mainVars, encVars>>


\* ------------------------------------------------------------ the inputs
\* <<tile_xsize, tile_ysize>>
SmallTile == <<2, 3>>

BigTile == <<ExpectedOverlap + 1, ExpectedOverlap + 2>>

TileSizes == {SmallTile, BigTile}

\* The overlaps <<x, y>>, in pixels, that the stage steps of a table imply.
OverlapPairs(sz) ==
    {op \in {<<0, 0>>, <<1, 1>>, <<10, 10>>, <<ExpectedOverlap, ExpectedOverlap>>,
             <<ExpectedOverlap, 10>>, <<10, ExpectedOverlap>>} :
        op[1] < sz[1] /\ op[2] < sz[2] /\ op[1] < sz[2] /\ op[2] < sz[1]}

NominalPair(sz) ==
    IF sz = BigTile THEN <<ExpectedOverlap, ExpectedOverlap>> ELSE <<1, 1>>

\* The stage step of tiles of `size` pixels that overlap by ov pixels, less
\* `slack` units of stage jitter.
StageStep(size, ov, slack) == MicronsPerPixel * size - (MicronsPerPixel * ov - slack)

\* The canvas pixels of a nominal job over nr x nc x nzp positions.
CanvasPixels(nr, nc, nzp, sz) ==
    LET o == IF nr > 1 /\ nc > 1 /\ sz = BigTile THEN ExpectedOverlap ELSE 0
    IN  ((sz[1] - o) * nc + o) * ((sz[2] - o) * nr + o) * nzp

FaultKinds == {"missing", "larger", "smaller"}

TileFile(kind, h, w) ==
    CASE kind = "ok" -> [present |-> TRUE, h |-> h, w |-> w]
      [] kind = "missing" -> [present |-> FALSE, h |-> 0, w |-> 0]
      [] kind = "larger" -> [present |-> TRUE, h |-> h + 1, w |-> w + 1]
      [] kind = "smaller" -> [present |-> TRUE, h |-> h - 1, w |-> w - 1]

\* The tile directory of a table: every tile file as the metadata says,
\* except tile f, which is of the given kind (f = 0: none).
Directory(table, f, kind, sz) ==
    [n \in {table[i].tileNumber : i \in DOMAIN table} |->
        TileFile(IF n = f THEN kind ELSE "ok", sz[2], sz[1])]

\* The job variables when the loop's iteration for a tile directory starts.
JobInputs(xyz, table, sz, dir) ==
    /\ XYZfile = xyz
    /\ XYZdata = table
    /\ tile_xsize = sz[1]
    /\ tile_ysize = sz[2]
    /\ wMicrons = MicronsPerPixel * sz[1]
    /\ hMicrons = MicronsPerPixel * sz[2]
    /\ files = dir
    /\ pc = "PARSING_METADATA"
    /\ overlap_x = -1
    /\ overlap_y = -1
    /\ overlap = 0
    /\ img_shape = <<>>
    /\ datFiles = {}
    /\ temp_filename = Unbound
    /\ img_stitched = <<>>
    /\ writes = <<>>
    /\ submitted = 0
    /\ done = {}
    /\ placed = <<>>
    /\ flagged = <<>>
    /\ outputImage = "absent"
    /\ output_dir = <<>>
    /\ error = ""

\* The script inside the loop's iteration for one tile directory, run
\* without --debug, without compression and with the given number of
\* pyramid levels and scale.
InLoop(pyramid_resolutions, pyramid_scale) ==
    /\ args = [tile_size |-> <<256, 256>>, compression |-> <<"N", "o", "n", "e">>,
               quality |-> 80, pyramid_resolutions |-> pyramid_resolutions,
               pyramid_scale |-> pyramid_scale, debug |-> FALSE]
    /\ compression_parameter = None
    /\ outputExtension = ".ome.tiff"
    /\ tree = <<>>
    /\ image_paths = <<<<"input", "mosaic">>>>
    /\ job = 1
    /\ mainpc = "LOOP"
    /\ exit_status = -1
    /\ results = <<>>
    /\ reference = [found |-> FALSE, planes |-> <<>>]
    /\ container = <<>>
    /\ levels = <<>>
    /\ checked = {}
    /\ validated = FALSE

OneMosaic == InLoop(0, 4)

\* The state before the job of one tile directory starts.
JobStart(xyz, table, sz, dir) ==
    /\ OneMosaic
    /\ JobInputs(xyz, table, sz, dir)

Init ==
    \E nr \in 1..MaxRows, nc \in 1..MaxCols, nzp \in 1..MaxZ, sz \in TileSizes :
    \E op \in OverlapPairs(sz), slack \in 0..1, d \in 0..MaxTiles, f \in 0..MaxTiles :
    \E kind \in FaultKinds, xyz \in {"ok", "missing", "badcolumns"} :
        LET n == nr * nc * nzp
            table == WithDuplicate(
                        SnakeTable(nr, nc, nzp, StageStep(sz[1], op[1], slack),
                                   StageStep(sz[2], op[2], slack)),
                        d)
        IN  /\ n + (IF d > 0 THEN 1 ELSE 0) <= MaxTiles
            /\ d <= n
            /\ f <= n + (IF d > 0 THEN 1 ELSE 0)
            /\ CanvasPixels(nr, nc, nzp, sz) <= MaxPixels
            /\ f = 0 => kind = "missing"
            /\ slack = 1 => op = <<ExpectedOverlap, ExpectedOverlap>>
            /\ (xyz # "ok" \/ op # NominalPair(sz) \/ slack # 0) => (d = 0 /\ f = 0)
            /\ d = 0 \/ f = 0
            /\ xyz # "ok" => op = NominalPair(sz)
            /\ JobStart(xyz, table, sz, Directory(table, f, kind, sz))

Next ==
    \/ ParseMetadata
    \/ ComputeOverlap
    \/ ComputeShape
    \/ CreateMemmap
    \/ CreateMemmapFails
    \/ Submit
    \/ \E i \in DOMAIN XYZdata : insert_tile(i)
    \/ Flush
    \/ FlushFails
    \/ Encode
    \/ EncodeFails

Spec == Init /\ [][Next]_vars


\* ------------------------------------------- the shape of large mosaics
\* stitch_tiles up to the shape of the canvas, for tiles of any size: the
\* canvas itself is not built.
ExampleTile == <<256, 256>>

ShapeTileSizes == {SmallTile, BigTile, ExampleTile, <<300, 200>>}

InitShape ==
    \E nr \in 1..MaxGeomRows, nc \in 1..MaxGeomCols, nzp \in 1..MaxZ :
    \E sz \in ShapeTileSizes :
    \E op \in OverlapPairs(sz), slack \in 0..1 :
        LET table == SnakeTable(nr, nc, nzp, StageStep(sz[1], op[1], slack),
                                StageStep(sz[2], op[2], slack))
        IN  /\ slack = 1 => op = <<ExpectedOverlap, ExpectedOverlap>>
            /\ JobStart("ok", table, sz, Directory(table, 0, "ok", sz))

NextShape ==
    \/ ParseMetadata
    \/ ComputeOverlap
    \/ ComputeShape

SpecShape == InitShape /\ [][NextShape]_vars

\* --------------------------------------------- the geometry of insert_tile
\* insert_tile's destination and crop for every row of a table, for any
\* tile size and any overlap below it: the pixels are not moved.
\* The table without row `hole` (0: the whole table).
WithoutRow(t, hole) ==
    [i \in 1..(Len(t) - (IF hole = 0 THEN 0 ELSE 1)) |->
        IF hole = 0 \/ i < hole THEN t[i] ELSE t[i + 1]]

\* Rows 0..Rmax and columns 0..Cmax all occur.
FullAxes(t) ==
    /\ Len(t) > 0
    /\ {t[i].R : i \in DOMAIN t} = 0..Max({t[i].R : i \in DOMAIN t})
    /\ {t[i].C : i \in DOMAIN t} = 0..Max({t[i].C : i \in DOMAIN t})

InitGeom ==
    \E nr \in 1..MaxGeomRows, nc \in 1..MaxGeomCols, nzp \in 1..MaxZ :
    \E w \in 1..MaxGeomTile, h \in 1..MaxGeomTile, o \in 0..MaxGeomTile :
    \E hole \in 0..MaxGeomTiles :
        LET table == WithoutRow(SnakeTable(nr, nc, nzp, w - o, h - o), hole)
            Zn == Cardinality({table[i].Z : i \in DOMAIN table})
        IN  /\ nr * nc * nzp <= MaxGeomTiles
            /\ hole <= nr * nc * nzp
            /\ o < w /\ o < h
            /\ FullAxes(table)
            /\ OneMosaic
            /\ XYZfile = "ok"
            /\ XYZdata = table
            /\ tile_xsize = w
            /\ tile_ysize = h
            /\ wMicrons = w
            /\ hMicrons = h
            /\ files = Directory(table, 0, "ok", <<w, h>>)
            /\ pc = "PLACING_TILES"
            /\ overlap_x = o
            /\ overlap_y = o
            /\ overlap = o
            /\ img_shape = <<Zn, (h - o) * nr + o, (w - o) * nc + o>>
            /\ datFiles = {}
            /\ temp_filename = Unbound
            /\ img_stitched = <<>>
            /\ writes = <<>>
            /\ submitted = Len(table)
            /\ done = {}
            /\ placed = <<>>
            /\ flagged = <<>>
            /\ outputImage = "absent"
            /\ output_dir = <<>>
            /\ error = ""

\* The placement of the next row of the table is computed.
PlanTile ==
    /\ Cardinality(done) < Len(XYZdata)
    /\ LET i == Cardinality(done) + 1
       IN  /\ done' = done \cup {i}
           /\ placed' = [j \in done \cup {i} |->
                            IF j = i THEN TaskPlacement(i) ELSE placed[j]]
    /\ UNCHANGED <<inputs, pc, metaVars, canvasVars, submitted, fsVars, flagged, error>>
    /\ UNCHANGED <<mainVars, encVars>>

NextGeom == PlanTile

SpecGeom == InitGeom /\ [][NextGeom]_vars

\* ------------------------------------------- tables with other labels
\* A whole job on a snake table whose row, column and z labels start at an
\* offset and advance by a stride: the stage positions are not changed.
LabelOffsets == {0, 1}

LabelStrides == {1, 2}

LabelGrids == {g \in (1..2) \X (1..2) \X (1..MaxZ) : g[1] * g[2] * g[3] <= 4}

Relabel(t, ro, rs, co, cs, zo, zs) ==
    [i \in DOMAIN t |-> [t[i] EXCEPT !.R = ro + rs * t[i].R,
                                     !.C = co + cs * t[i].C,
                                     !.Z = zo + zs * t[i].Z]]

InitLabels ==
    \E g \in LabelGrids :
    \E ro \in LabelOffsets, co \in LabelOffsets, zo \in LabelOffsets :
    \E rs \in LabelStrides, cs \in LabelStrides, zs \in LabelStrides :
        LET sz == BigTile
            table == Relabel(SnakeTable(g[1], g[2], g[3],
                                        StageStep(sz[1], ExpectedOverlap, 0),
                                        StageStep(sz[2], ExpectedOverlap, 0)),
                             ro, rs, co, cs, zo, zs)
        IN  JobStart("ok", table, sz, Directory(table, 0, "ok", sz))

SpecLabels == InitLabels /\ [][Next]_vars

\* ------------------------------------------------ the script: arguments
\* A str is the sequence of its characters.
UpperCase == <<"A", "B", "C", "D", "E", "F", "G", "H", "I", "J", "K", "L", "M",
               "N", "O", "P", "Q", "R", "S", "T", "U", "V", "W", "X", "Y", "Z">>

LowerCase == <<"a", "b", "c", "d", "e", "f", "g", "h", "i", "j", "k", "l", "m",
               "n", "o", "p", "q", "r", "s", "t", "u", "v", "w", "x", "y", "z">>

\* str.lower()
lower(str) ==
    [i \in DOMAIN str |->
        IF \E k \in DOMAIN UpperCase : UpperCase[k] = str[i]
        THEN LowerCase[CHOOSE k \in DOMAIN UpperCase : UpperCase[k] = str[i]]
        ELSE str[i]]

\* str.replace(old, "") for a character old
replace(str, old) == SelectSeq(str, LAMBDA c : c # old)

UncompressedNames == {<<"n", "o", "n", "e">>,
                      <<"u", "n", "c", "o", "m", "p", "r", "e", "s", "s", "e", "d">>}

JpegNames == {<<"j", "p", "e", "g">>,
              <<"j", "p", "e", "g", "2", "0", "0", "0">>,
              <<"j", "p", "e", "g", "-", "2", "0", "0", "0">>}

validateCompression_NoQuality(compression, quality_factor) ==
    LET name == replace(lower(compression), " ")
    IN  IF name \in UncompressedNames
        THEN [exit |-> FALSE, value |-> None]
        ELSE IF name \in JpegNames
        THEN [exit |-> FALSE, value |-> <<compression, quality_factor>>]
        ELSE [exit |-> TRUE, value |-> None]

\* validateCompression: exit is TRUE when it ends the script with exit(1),
\* else value is what it returns.
validateCompression(compression, quality_factor) ==
    LET name == replace(lower(compression), " ")
    IN  IF name \in UncompressedNames
        THEN [exit |-> FALSE, value |-> None]
        ELSE IF name \in JpegNames /\ quality_factor > 0
        THEN [exit |-> FALSE, value |-> <<compression, quality_factor>>]
        ELSE [exit |-> TRUE, value |-> None]

\* exit(1)
Exit ==
    /\ mainpc' = "EXITED"
    /\ exit_status' = 1

jobVars == <<inputs, pc, metaVars, canvasVars, poolVars, fsVars, flagged, error, encVars>>

\* The tile size and the compression arguments are checked.
CheckArguments ==
    /\ mainpc = "CHECKING_ARGUMENTS"
    /\ LET tileSizeX == args.tile_size[1]
           tileSizeY == args.tile_size[2]
           checked_ == validateCompression(args.compression, args.quality)
       IN  IF tileSizeX <= 0 \/ tileSizeY <= 0 \/ checked_.exit
           THEN /\ Exit
                /\ UNCHANGED compression_parameter
           ELSE /\ compression_parameter' = checked_.value
                /\ mainpc' = "DISCOVERING"
                /\ UNCHANGED exit_status
    /\ UNCHANGED <<args, outputExtension, tree, image_paths, job, results, jobVars>>

\* The directories under the input directory, in the order glob walks them.
DirectoryNames == <<<<"input", "m1">>, <<"input", "m2">>, <<"input", "m3">>,
                    <<"input", "m4">>, <<"input", "other", "m1">>>>

\* glob('**/XYZPositions.txt') and the directories of what it found.
glob(t) == SelectSeq(DirectoryNames, LAMBDA d : d \in DOMAIN t /\ t[d].xyz # "absent")

Discover ==
    /\ mainpc = "DISCOVERING"
    /\ image_paths' = glob(tree)
    /\ IF Len(glob(tree)) = 0
       THEN Exit
       ELSE /\ mainpc' = "CONFIGURING"
            /\ UNCHANGED exit_status
    /\ UNCHANGED <<args, compression_parameter, outputExtension, tree, job, results,
                   jobVars>>

\* What --debug makes of the pyramid level count, the compression and the
\* extension of the output.
DebugLevels_Kept(a) == a.pyramid_resolutions

DebugLevels(a) == IF a.debug THEN 0 ELSE a.pyramid_resolutions

DebugCompression_Kept(a, c) == c

DebugCompression(a, c) == IF a.debug THEN None ELSE c

DebugExtension_Plain(a) == ".ome.tiff"

DebugExtension(a) == IF a.debug THEN "_debug.ome.tiff" ELSE ".ome.tiff"

DebugSettings ==
    /\ mainpc = "CONFIGURING"
    /\ args' = [args EXCEPT !.pyramid_resolutions = DebugLevels(args)]
    /\ outputExtension' = DebugExtension(args)
    /\ compression_parameter' = DebugCompression(args, compression_parameter)
    /\ mainpc' = "LOOP"
    /\ UNCHANGED <<tree, image_paths, job, exit_status, results, jobVars>>

\* The loop takes the next tile directory: nothing of the iteration before
\* is left but the files, the log and the name temp_filename.
BeginJob ==
    /\ mainpc = "LOOP"
    /\ job < Len(image_paths)
    /\ job = 0 \/ pc \in {"DONE", "FAILED"}
    /\ job' = job + 1
    /\ results' = IF job = 0 THEN results ELSE Append(results, pc)
    /\ LET d == tree[image_paths[job + 1]]
       IN  /\ XYZfile' = d.xyz
           /\ XYZdata' = d.table
           /\ tile_xsize' = d.sz[1]
           /\ tile_ysize' = d.sz[2]
           /\ wMicrons' = MicronsPerPixel * d.sz[1]
           /\ hMicrons' = MicronsPerPixel * d.sz[2]
           /\ files' = d.dir
           /\ reference' = d.ref
    /\ pc' = "PARSING_METADATA"
    /\ overlap_x' = -1
    /\ overlap_y' = -1
    /\ overlap' = 0
    /\ img_shape' = <<>>
    /\ img_stitched' = <<>>
    /\ writes' = <<>>
    /\ submitted' = 0
    /\ done' = {}
    /\ placed' = <<>>
    /\ outputImage' = "absent"
    /\ error' = ""
    /\ container' = <<>>
    /\ levels' = <<>>
    /\ checked' = {}
    /\ validated' = FALSE
    /\ UNCHANGED <<datFiles, temp_filename, output_dir, flagged, args,
                   compression_parameter, outputExtension, tree, image_paths, mainpc,
                   exit_status>>

\* The loop is over and the script ends.
Finish ==
    /\ mainpc = "LOOP"
    /\ job = Len(image_paths)
    /\ pc \in {"DONE", "FAILED"}
    /\ results' = Append(results, pc)
    /\ mainpc' = "END"
    /\ exit_status' = 0
    /\ UNCHANGED <<args, compression_parameter, outputExtension, tree, image_paths,
                   job, jobVars>>

\* ------------------------------------------- Python's float arithmetic
\* The sizes of the pyramid levels are computed in IEEE 754 binary64.  A
\* natural number of any size is the sequence of its digits in base
\* LimbBase, least significant first, without leading zeros; a float is
\* m * 2^e for such a number m of at most Precision bits.
LimbBits == 15

LimbBase == 2^LimbBits

Precision == 53

RECURSIVE Norm(_)
Norm(a) ==
    IF Len(a) > 0 /\ a[Len(a)] = 0 THEN Norm(SubSeq(a, 1, Len(a) - 1)) ELSE a

RECURSIVE FromNat(_)
FromNat(n) == IF n = 0 THEN <<>> ELSE <<n % LimbBase>> \o FromNat(n \div LimbBase)

RECURSIVE ToNat(_)
ToNat(a) == IF Len(a) = 0 THEN 0 ELSE a[1] + LimbBase * ToNat(Tail(a))

\* a * m + carry, for a digit m.
RECURSIVE MulSmall(_, _, _)
MulSmall(a, m, carry) ==
    IF Len(a) = 0 THEN FromNat(carry)
    ELSE LET v == a[1] * m + carry
         IN  <<v % LimbBase>> \o MulSmall(Tail(a), m, v \div LimbBase)

RECURSIVE AddBig(_, _, _)
AddBig(a, b, carry) ==
    IF Len(a) = 0 /\ Len(b) = 0 THEN FromNat(carry)
    ELSE LET x == IF Len(a) = 0 THEN 0 ELSE a[1]
             y == IF Len(b) = 0 THEN 0 ELSE b[1]
             v == x + y + carry
         IN  <<v % LimbBase>> \o
             AddBig(IF Len(a) = 0 THEN a ELSE Tail(a),
                    IF Len(b) = 0 THEN b ELSE Tail(b), v \div LimbBase)

RECURSIVE MulBig(_, _)
MulBig(a, b) ==
    IF Len(b) = 0 THEN <<>>
    ELSE Norm(AddBig(MulSmall(a, b[1], 0), <<0>> \o MulBig(a, Tail(b)), 0))

RECURSIVE PowBig(_, _)
PowBig(a, k) == IF k = 0 THEN <<1>> ELSE MulBig(PowBig(a, k - 1), a)

\* The quotient of a by a digit d, most significant digit first.
RECURSIVE DivSmallFrom(_, _, _, _)
DivSmallFrom(a, d, i, r) ==
    IF i = 0 THEN <<>>
    ELSE LET v == r * LimbBase + a[i]
         IN  <<v \div d>> \o DivSmallFrom(a, d, i - 1, v % d)

RECURSIVE ModSmallFrom(_, _, _, _)
ModSmallFrom(a, d, i, r) ==
    IF i = 0 THEN r ELSE ModSmallFrom(a, d, i - 1, (r * LimbBase + a[i]) % d)

Reverse(q) == [i \in 1..Len(q) |-> q[Len(q) + 1 - i]]

DivSmall(a, d) == Norm(Reverse(DivSmallFrom(a, d, Len(a), 0)))

ModSmall(a, d) == ModSmallFrom(a, d, Len(a), 0)

RECURSIVE BitLenNat(_)
BitLenNat(n) == IF n = 0 THEN 0 ELSE 1 + BitLenNat(n \div 2)

BitLen(a) == IF Len(a) = 0 THEN 0 ELSE LimbBits * (Len(a) - 1) + BitLenNat(a[Len(a)])

Bit(a, i) ==
    IF i \div LimbBits + 1 > Len(a) THEN 0
    ELSE (a[i \div LimbBits + 1] \div 2^(i % LimbBits)) % 2

\* 2^n
PowerOfTwo(n) == [i \in 1..(n \div LimbBits + 1) |->
                    IF i = n \div LimbBits + 1 THEN 2^(n % LimbBits) ELSE 0]

\* floor(a / 2^sh)
ShiftRight(a, sh) ==
    LET q == sh \div LimbBits
        r == sh % LimbBits
        digit(j) == IF j > Len(a) THEN 0 ELSE a[j]
    IN  Norm([j \in 1..Greater(0, Len(a) - q) |->
                (digit(j + q) \div 2^r) + (digit(j + q + 1) % 2^r) * 2^(LimbBits - r)])

\* The float nearest to a * 2^e, ties to the even mantissa.
RoundToFloat(a, e) ==
    LET sh == BitLen(a) - Precision
    IN  IF sh <= 0 THEN [m |-> a, e |-> e]
        ELSE LET q == ShiftRight(a, sh)
                 half == Bit(a, sh - 1) = 1
                 sticky == \E i \in 0..(sh - 2) : Bit(a, i) = 1
                 up == half /\ (sticky \/ Bit(q, 0) = 1)
             IN  [m |-> IF up THEN Norm(AddBig(q, <<1>>, 0)) ELSE q, e |-> e + sh]

\* Python's 1 / s for an int s > 0: the quotient is taken to GuardBits more
\* bits than the mantissa holds, with one more bit that tells whether
\* anything was left.
GuardBits == 8

FloatInverse(s) ==
    LET n == Precision + GuardBits + BitLenNat(s)
        q == DivSmall(PowerOfTwo(n), s)
        left == IF ModSmall(PowerOfTwo(n), s) = 0 THEN 0 ELSE 1
    IN  RoundToFloat(Norm(MulSmall(q, 2, left)), 0 - (n + 1))

\* Python's x ** k for a float x and an int k >= 0 (pow, correctly rounded).
FloatPower(x, k) == RoundToFloat(PowBig(x.m, k), x.e * k)

\* Python's n * x for an int 0 <= n < LimbBase and a float x.
FloatTimesInt(n, x) == RoundToFloat(Norm(MulSmall(x.m, n, 0)), x.e)

\* math.floor of a float of no positive exponent.
floor(x) == ToNat(ShiftRight(x.m, 0 - x.e))

\* floor(size * (1/args.pyramid_scale)**(x+1))
LevelSize_Exact(size, scale, k) == size \div scale^k

LevelSize(size, scale, k) ==
    floor(FloatTimesInt(size, FloatPower(FloatInverse(scale), k)))

\* ------------------------------------------------------- cv2.resize
\* cv2.resize(src, (dw, dh), interpolation=cv2.INTER_LINEAR) of a plane of
\* uint8: the sample of destination index d falls at source coordinate
\* (d + 0.5) * ssize / dsize - 0.5, and its two neighbours are mixed with
\* weights in fixed point of INTER_RESIZE_COEF_BITS bits.
INTER_RESIZE_COEF_BITS == 11

INTER_RESIZE_COEF_SCALE == 2^INTER_RESIZE_COEF_BITS

\* Twice the source coordinate times dsize, and its whole part.
SampleNumerator(d, ssize, dsize) == (2 * d + 1) * ssize - dsize

SampleIndex(d, ssize, dsize) ==
    LET n == SampleNumerator(d, ssize, dsize)
    IN  IF n >= 0 THEN n \div (2 * dsize) ELSE 0 - ((2 * dsize - 1 - n) \div (2 * dsize))

\* The weight, in fixed point, of the neighbour after the sample.
SampleWeight(d, ssize, dsize) ==
    round(INTER_RESIZE_COEF_SCALE *
            (SampleNumerator(d, ssize, dsize) - 2 * dsize * SampleIndex(d, ssize, dsize)),
          2 * dsize)

clip(x, a, b) == IF x >= a THEN (IF x < b THEN x ELSE b - 1) ELSE a

\* Along x a sample before the first or from the last pixel on takes that
\* pixel alone.
xofs(dx, W, dw) == clip(SampleIndex(dx, W, dw), 0, W)

alpha(dx, W, dw) ==
    LET sx == SampleIndex(dx, W, dw)
    IN  IF sx < 0 \/ sx >= W - 1 THEN 0 ELSE SampleWeight(dx, W, dw)

\* The horizontal pass over line y of the plane: a sum scaled by
\* INTER_RESIZE_COEF_SCALE.
HResizeLinear(src, y, dx, W, dw) ==
    LET sx == xofs(dx, W, dw)
        a1 == alpha(dx, W, dw)
    IN  src[y + 1][sx + 1] * (INTER_RESIZE_COEF_SCALE - a1) +
        (IF a1 = 0 THEN 0 ELSE src[y + 1][sx + 2] * a1)

\* The vertical pass: the two lines are clipped to the plane, the weights
\* are not.
VResizeLinear(S0, S1, b0, b1) ==
    ((((b0 * (S0 \div 16)) \div 65536) + ((b1 * (S1 \div 16)) \div 65536)) + 2) \div 4

ResizeLinear(src, dw, dh) ==
    LET H == Len(src)
        W == Len(src[1])
    IN  [y \in 1..dh |-> [x \in 1..dw |->
            LET sy == SampleIndex(y - 1, H, dh)
                b1 == SampleWeight(y - 1, H, dh)
            IN  VResizeLinear(HResizeLinear(src, clip(sy, 0, H), x - 1, W, dw),
                              HResizeLinear(src, clip(sy + 1, 0, H), x - 1, W, dw),
                              INTER_RESIZE_COEF_SCALE - b1, b1)]]

\* Halving both axes exactly is done as the rounded mean of 2x2 blocks.
ResizeAreaFast(src, dw, dh) ==
    [y \in 1..dh |-> [x \in 1..dw |->
        (src[2 * y - 1][2 * x - 1] + src[2 * y - 1][2 * x] +
         src[2 * y][2 * x - 1] + src[2 * y][2 * x] + 2) \div 4]]

resize(src, dw, dh) ==
    IF Len(src) = 2 * dh /\ Len(src[1]) = 2 * dw
    THEN ResizeAreaFast(src, dw, dh)
    ELSE ResizeLinear(src, dw, dh)

\* ---------------------------------------- the script: the OME-TIFF
\* The iteration ends well: the scratch file is removed.
JobCompletes ==
    /\ datFiles' = datFiles \ {temp_filename}
    /\ pc' = "DONE"

\* The base image is written, with room for the sub-levels when there are
\* any; without sub-levels the file is complete.
WriteBase ==
    /\ pc = "ENCODING"
    /\ container = <<>>
    /\ container' = [extension |-> outputExtension,
                     compression |-> compression_parameter,
                     tile |-> args.tile_size,
                     subifds |-> args.pyramid_resolutions,
                     shape |-> img_shape]
    /\ IF args.pyramid_resolutions = 0
       THEN /\ outputImage' = "complete"
            /\ output_dir' = Saved("complete")
            /\ IF args.debug
               THEN pc' = "VALIDATING" /\ UNCHANGED datFiles
               ELSE JobCompletes
       ELSE /\ outputImage' = "partial"
            /\ output_dir' = Saved("partial")
            /\ UNCHANGED <<pc, datFiles>>
    /\ UNCHANGED <<inputs, metaVars, canvasVars, poolVars, temp_filename, flagged,
                   error, mainVars, reference, levels, checked, validated>>

\* TiffWriter fails to open the file, or fails while writing the base image.
WriteBaseFails ==
    /\ pc = "ENCODING"
    /\ container = <<>>
    /\ outputImage' \in {"absent", "partial"}
    /\ output_dir' = IF outputImage' = "partial" THEN Saved("partial") ELSE output_dir
    /\ ExceptHandler("EncodeError", datFiles)
    /\ UNCHANGED <<inputs, metaVars, canvasVars, poolVars, temp_filename, mainVars,
                   encVars>>

\* The size of sub-level x + 1 (x counted from 0) along an axis of the canvas.
SubLevelSize_Integer(size, x) == size \div args.pyramid_scale^(x + 1)

SubLevelSize(size, x) == LevelSize(size, args.pyramid_scale, x + 1)

\* The array a sub-level is resized from.
SubLevelSource_Prior(x) == IF x = 0 THEN img_stitched ELSE levels[x]

SubLevelSource(x) == img_stitched

\* The next sub-level is made and written; cv2.resize raises when the size
\* it is given has a zero.  After the last one the file is complete.
WriteSubLevel ==
    /\ pc = "ENCODING"
    /\ container # <<>>
    /\ Len(levels) < args.pyramid_resolutions
    /\ \E x \in {Len(levels)} :
       \E dw \in {SubLevelSize(img_shape[3], x)}, dh \in {SubLevelSize(img_shape[2], x)} :
       LET images == SubLevelSource(x)
       IN  IF dw = 0 \/ dh = 0
           THEN /\ ExceptHandler("cv2.error", datFiles)
                /\ UNCHANGED <<levels, outputImage, output_dir>>
           ELSE /\ levels' = Append(levels,
                                    [n \in DOMAIN images |-> resize(images[n], dw, dh)])
                /\ UNCHANGED <<flagged, error>>
                /\ IF x + 1 = args.pyramid_resolutions
                   THEN /\ outputImage' = "complete"
                        /\ output_dir' = Saved("complete")
                        /\ JobCompletes
                   ELSE UNCHANGED <<outputImage, output_dir, pc, datFiles>>
    /\ UNCHANGED <<inputs, metaVars, canvasVars, poolVars, temp_filename, mainVars,
                   reference, container, checked, validated>>

\* ---------------------------------------- the script: the validator
\* skimage's structural_similarity of a plane of the output and a plane of
\* the reference that is (same) or is not pixel for pixel that plane: it
\* raises for planes of different shapes or smaller than its window, and
\* is 1 exactly for equal planes.
win_size == 7

ssim(shape, plane) ==
    IF plane.shape # shape \/ Lesser(shape[1], shape[2]) < win_size
    THEN [raised |-> TRUE, exact |-> FALSE]
    ELSE [raised |-> FALSE, exact |-> plane.same]

\* The loop over the sorted plane files of the reference, from file i on,
\* having compared the output planes in seen.
RECURSIVE ComparePlanes(_, _)
ComparePlanes(i, seen) ==
    IF i > Len(reference.planes) THEN [checked |-> seen, outcome |-> "exact"]
    ELSE IF i - 1 >= img_shape[1] THEN [checked |-> seen, outcome |-> "IndexError"]
    ELSE LET score == ssim(<<img_shape[2], img_shape[3]>>, reference.planes[i])
         IN  IF score.raised THEN [checked |-> seen, outcome |-> "ValueError"]
             ELSE IF ~score.exact
             THEN [checked |-> seen \cup {i - 1}, outcome |-> "mismatch"]
             ELSE ComparePlanes(i + 1, seen \cup {i - 1})

\* With --debug the written image is read back and compared with the
\* MosTif planes beside the tile directory.
Validator ==
    /\ pc = "VALIDATING"
    /\ validated' = TRUE
    /\ LET r == IF reference.found THEN ComparePlanes(1, {})
                ELSE [checked |-> {}, outcome |-> "exact"]
           entry(msg) == [kind |-> "validator", path |-> tiles_path, tile |-> 0,
                          msg |-> msg]
       IN  /\ checked' = r.checked
           /\ IF r.outcome \in {"IndexError", "ValueError"}
              THEN ExceptHandler(r.outcome, datFiles)
              ELSE /\ flagged' =
                        IF ~reference.found
                        THEN Append(flagged, entry("Mosaic TIFF image was not found"))
                        ELSE IF r.outcome = "mismatch"
                        THEN Append(flagged, entry("Stitched image is not exactly the same"))
                        ELSE flagged
                   /\ JobCompletes
                   /\ UNCHANGED error
    /\ UNCHANGED <<inputs, metaVars, canvasVars, poolVars, temp_filename, outputImage, output_dir,
                   mainVars, reference, container, levels>>

\* ------------------------------------------------------ a whole run
MaxJobs == 2

MaxLevels == 2

\* The tiles of the mosaics of a run, large enough for the validator's window.
BatchTile == <<win_size + 1, win_size>>

\* The MosTif planes beside a mosaic whose canvas has the given shape.
RefPlane(shape, same) == [shape |-> <<shape[2], shape[3]>>, same |-> same]

References(shape) ==
    LET n == shape[1]
        exact == [i \in 1..n |-> RefPlane(shape, TRUE)]
    IN  [none |-> [found |-> FALSE, planes |-> <<>>],
         exact |-> [found |-> TRUE, planes |-> exact],
         fewer |-> [found |-> TRUE, planes |-> SubSeq(exact, 1, n - 1)],
         more |-> [found |-> TRUE, planes |-> Append(exact, RefPlane(shape, TRUE))],
         differs |-> [found |-> TRUE,
                      planes |-> [exact EXCEPT ![n] = RefPlane(shape, FALSE)]],
         othersize |-> [found |-> TRUE,
                        planes |-> [exact EXCEPT ![1] = [shape |-> <<shape[2] + 1, shape[3]>>,
                                                         same |-> FALSE]]]]

ReferenceKinds == {"none", "exact", "fewer", "more", "differs", "othersize"}

\* A directory under the input directory.
\* "pair", "stack", "grid": one row of two tiles, one tile in two planes,
\* 2 x 2 tiles that overlap by 16 pixels; "mismatch": 2 x 2 tiles that
\* overlap by 1 pixel; "notiles": the table names a tile and the directory
\* has no tile file; "absent": no XYZPositions.txt; "missing": the file is
\* gone by the time it is read; "unreadable", "badcolumns": as for XYZfile.
MosaicKinds == {"pair", "stack", "grid", "mismatch", "badcolumns", "unreadable",
                "missing", "notiles", "absent"}

GoodKinds == {"pair", "stack"}

LaterKinds == {"pair", "stack", "unreadable", "absent"}

Mosaic(kind, ref) ==
    LET xs == StageStep(BatchTile[1], 0, 0)
        ys == StageStep(BatchTile[2], 0, 0)
        pair == SnakeTable(1, 2, 1, xs, ys)
        stack == SnakeTable(1, 1, 2, xs, ys)
        small == SnakeTable(2, 2, 1, StageStep(SmallTile[1], 1, 0),
                            StageStep(SmallTile[2], 1, 0))
        one == SnakeTable(1, 1, 1, xs, ys)
        grid == SnakeTable(2, 2, 1, StageStep(BigTile[1], ExpectedOverlap, 0),
                           StageStep(BigTile[2], ExpectedOverlap, 0))
        dir(xyz, table, sz, f, shape) ==
            [xyz |-> xyz, table |-> table, sz |-> sz,
             dir |-> Directory(table, f, "missing", sz), ref |-> References(shape)[ref]]
    IN  CASE kind = "pair" ->
                dir("ok", pair, BatchTile, 0, <<1, BatchTile[2], 2 * BatchTile[1]>>)
          [] kind = "stack" ->
                dir("ok", stack, BatchTile, 0, <<2, BatchTile[2], BatchTile[1]>>)
          [] kind = "grid" ->
                dir("ok", grid, BigTile, 0, <<1, 1, 1>>)
          [] kind = "mismatch" ->
                dir("ok", small, SmallTile, 0, <<1, 1, 1>>)
          [] kind = "notiles" ->
                dir("ok", one, BatchTile, 1, <<1, 1, 1>>)
          [] OTHER ->
                dir(kind, pair, BatchTile, 0, <<1, 1, 1>>)

\* The command lines.
CompressionNames == {<<"N", "o", "n", "e">>,
                     <<"u", "n", "c", "o", "m", "p", "r", "e", "s", "s", "e", "d">>,
                     <<"J", "P", "E", "G">>,
                     <<"J", "P", "E", "G", "2", "0", "0", "0">>,
                     <<"J", "P", "E", "G", " ", "2", "0", "0", "0">>,
                     <<"j", "p", "e", "g", "-", "2", "0", "0", "0">>,
                     <<"L", "Z", "W">>}

DefaultArgs == [tile_size |-> <<256, 256>>, compression |-> <<"N", "o", "n", "e">>,
                quality |-> 80, pyramid_resolutions |-> 0, pyramid_scale |-> 2,
                debug |-> FALSE]

\* The command lines that differ from the default one only in how they
\* can be invalid, and those that change what is written.
ArgChoices ==
    {[DefaultArgs EXCEPT !.tile_size = t] : t \in {<<0, 256>>, <<256, 0>>, <<-1, 256>>}}
    \cup {[DefaultArgs EXCEPT !.compression = c, !.quality = q] :
            c \in CompressionNames, q \in {0, 80}}
    \cup {[DefaultArgs EXCEPT !.compression = c, !.pyramid_resolutions = n,
                              !.pyramid_scale = sc, !.debug = d] :
            c \in {<<"N", "o", "n", "e">>, <<"J", "P", "E", "G">>},
            n \in 0..MaxLevels, sc \in {2, 4}, d \in BOOLEAN}

\* The job variables before the loop.
NoJob ==
    /\ XYZfile = "absent"
    /\ XYZdata = <<>>
    /\ tile_xsize = 0
    /\ tile_ysize = 0
    /\ wMicrons = 0
    /\ hMicrons = 0
    /\ files = <<>>
    /\ pc = "NOT_STARTED"
    /\ overlap_x = -1
    /\ overlap_y = -1
    /\ overlap = 0
    /\ img_shape = <<>>
    /\ datFiles = {}
    /\ temp_filename = Unbound
    /\ img_stitched = <<>>
    /\ writes = <<>>
    /\ submitted = 0
    /\ done = {}
    /\ placed = <<>>
    /\ flagged = <<>>
    /\ outputImage = "absent"
    /\ output_dir = <<>>
    /\ error = ""
    /\ reference = [found |-> FALSE, planes |-> <<>>]
    /\ container = <<>>
    /\ levels = <<>>
    /\ checked = {}
    /\ validated = FALSE

\* The directories of a run of n mosaics: the first n of the input
\* directory, or two of the same name under different parents.
DirectoryChoices(n) ==
    {SubSeq(DirectoryNames, 1, n)}
    \cup (IF n = 2 THEN {<<DirectoryNames[1], DirectoryNames[Len(DirectoryNames)]>>}
          ELSE {})

InitBatch ==
    \E a \in ArgChoices, n \in 0..MaxJobs :
    \E kinds \in [1..n -> MosaicKinds], ref \in ReferenceKinds :
    \E ds \in DirectoryChoices(n) :
        /\ a # DefaultArgs => \A i \in 1..n : kinds[i] \in GoodKinds
        /\ ds # SubSeq(DirectoryNames, 1, n) =>
            /\ a \in {DefaultArgs, [DefaultArgs EXCEPT !.debug = TRUE]}
            /\ \A i \in 1..n : kinds[i] \in GoodKinds
            /\ ref \in {"none", "exact"}
        /\ \A i \in 2..n : kinds[i] \in LaterKinds
        /\ (a.pyramid_scale = 4 => a.pyramid_resolutions > 0)
        /\ (~a.debug \/ n = 0) => ref = "none"
        /\ args = a
        /\ compression_parameter = Unbound
        /\ outputExtension = ""
        /\ tree = [d \in {ds[i] : i \in 1..n} |->
                    LET i == CHOOSE j \in 1..n : ds[j] = d
                    IN  Mosaic(kinds[i], IF i = 1 THEN ref
                                         ELSE IF a.debug THEN "exact" ELSE "none")]
        /\ image_paths = <<>>
        /\ job = 0
        /\ mainpc = "CHECKING_ARGUMENTS"
        /\ exit_status = -1
        /\ results = <<>>
        /\ NoJob

NextBatch ==
    \/ CheckArguments
    \/ Discover
    \/ DebugSettings
    \/ BeginJob
    \/ ParseMetadata
    \/ ComputeOverlap
    \/ ComputeShape
    \/ CreateMemmap
    \/ CreateMemmapFails
    \/ Submit
    \/ \E i \in DOMAIN XYZdata : insert_tile(i)
    \/ Flush
    \/ FlushFails
    \/ WriteBase
    \/ WriteBaseFails
    \/ WriteSubLevel
    \/ Validator
    \/ Finish

SpecBatch == InitBatch /\ [][NextBatch]_vars

\* The runs that write no sub-level.  The script is one sequential program
\* and its pool's workers run the tasks they hold: some step is always
\* taken while one is possible.
InitLoop == InitBatch /\ DebugLevels(args) = 0

NextLoop ==
    \/ CheckArguments
    \/ Discover
    \/ DebugSettings
    \/ BeginJob
    \/ ParseMetadata
    \/ ComputeOverlap
    \/ ComputeShape
    \/ CreateMemmap
    \/ CreateMemmapFails
    \/ Submit
    \/ \E i \in DOMAIN XYZdata : insert_tile(i)
    \/ Flush
    \/ FlushFails
    \/ WriteBase
    \/ WriteBaseFails
    \/ Validator
    \/ Finish

SpecLoop == InitLoop /\ [][NextLoop]_vars /\ WF_vars(NextLoop)

\* ------------------------------------------------ the pyramid alone
\* The job of a mosaic of one tile, so that the canvas is the tile, written
\* with sub-levels and without failures of the file system.
MaxPyramidLevels == 3

PyramidScales == {2, 3, 4, 7}

\* <<height, width>>
PyramidCanvases == {<<4, 8>>, <<5, 7>>, <<9, 16>>, <<28, 27>>, <<28, 54>>, <<50, 49>>}

PyramidTileNumbers == {1, 2}

InitPyramid ==
    \E n \in 0..MaxPyramidLevels, sc \in PyramidScales :
    \E hw \in PyramidCanvases, t \in PyramidTileNumbers :
        LET table == <<[tileNumber |-> t, X |-> 0, Y |-> 0, R |-> 0, C |-> 0, Z |-> 0]>>
            sz == <<hw[2], hw[1]>>
        IN  /\ InLoop(n, sc)
            /\ JobInputs("ok", table, sz, Directory(table, 0, "ok", sz))

NextPyramid ==
    \/ ParseMetadata
    \/ ComputeOverlap
    \/ ComputeShape
    \/ CreateMemmap
    \/ Submit
    \/ \E i \in DOMAIN XYZdata : insert_tile(i)
    \/ Flush
    \/ WriteBase
    \/ WriteSubLevel

SpecPyramid == InitPyramid /\ [][NextPyramid]_vars

\* ================================================================ claims

\* C1 (amended): once stitch_tiles has computed the canvas shape it is
\* (nz, (h-o)*ny + o, (w-o)*nx + o) for the numbers ny, nx, nz of distinct
\* rows, columns and z values, the tile size (w, h) and the overlap o in
\* use; a 2x2 grid of 256x256 tiles with overlap 16 and one plane gives
\* (1, 496, 496).
C1_Example ==
    /\ <<tile_xsize, tile_ysize>> = ExampleTile
    /\ Rows = {0, 1} /\ Cols = {0, 1} /\ Cardinality(Zs) = 1
    /\ overlap = 16

C1_CanvasShape ==
    img_shape # <<>> =>
        /\ img_shape = <<Cardinality(Zs),
                         (tile_ysize - overlap) * Cardinality(Rows) + overlap,
                         (tile_xsize - overlap) * Cardinality(Cols) + overlap>>
        /\ C1_Example => img_shape = <<1, 496, 496>>

C1_Witness == img_shape # <<>> /\ C1_Example /\ pc = "ALLOCATING_CANVAS"

\* C1 as stated: the shape formula, and (1, 480, 480) for the example.
C1_Original ==
    img_shape # <<>> =>
        /\ img_shape = <<Cardinality(Zs),
                         (tile_ysize - overlap) * Cardinality(Rows) + overlap,
                         (tile_xsize - overlap) * Cardinality(Cols) + overlap>>
        /\ C1_Example => img_shape = <<1, 480, 480>>

\* C2: for a table in which each (row, col, z) occurs once, rows are 0..Rmax
\* and columns 0..Cmax, the destinations insert_tile computes for two
\* distinct tiles share no pixel, and none is empty.
RegionsDisjoint(a, b) ==
    \/ a.z # b.z
    \/ a.y0 + a.h <= b.y0 \/ b.y0 + b.h <= a.y0
    \/ a.x0 + a.w <= b.x0 \/ b.x0 + b.w <= a.x0

UniquePositions ==
    \A i, j \in DOMAIN XYZdata :
        (XYZdata[i].R = XYZdata[j].R /\ XYZdata[i].C = XYZdata[j].C
            /\ XYZdata[i].Z = XYZdata[j].Z) => i = j

C2_Disjoint ==
    (UniquePositions /\ FullAxes(XYZdata)) =>
        \A i, j \in DOMAIN placed :
            /\ placed[i].h > 0 /\ placed[i].w > 0
            /\ i # j => RegionsDisjoint(placed[i], placed[j])

\* A 3x3 grid with a positive overlap, all nine destinations computed.
C2_Witness ==
    /\ UniquePositions /\ FullAxes(XYZdata)
    /\ Rows = {0, 1, 2} /\ Cols = {0, 1, 2}
    /\ overlap > 0
    /\ DOMAIN placed = DOMAIN XYZdata


\* C3: when every placement task of a job has returned, the canvas is the
\* one that inserting the tiles one by one in table order gives, whatever
\* the order in which the pool ran them.
RECURSIVE SequentialCanvas(_)
SequentialCanvas(k) ==
    IF k = 0 THEN Filled(img_shape, FillValue)
    ELSE Inserted(SequentialCanvas(k - 1), k)

C3_OrderIndependent ==
    (img_stitched # <<>> /\ AllTasksDone) =>
        img_stitched = SequentialCanvas(Len(XYZdata))

\* C4: for a complete grid of readable, correctly sized tiles, once every
\* task has returned each canvas pixel was assigned exactly once and holds
\* the pixel of a tile at that plane whose frame, with its origin at
\* (C*(w-o), R*(h-o)), covers it.
CompleteGrid ==
    /\ UniquePositions
    /\ FullAxes(XYZdata)
    /\ Len(XYZdata) = Cardinality(Rows) * Cardinality(Cols) * Cardinality(Zs)
    /\ \A n \in DOMAIN files :
        files[n] = [present |-> TRUE, h |-> tile_ysize, w |-> tile_xsize]

FromTile(p, t) ==
    LET sy == p[2] - t.R * (tile_ysize - overlap)
        sx == p[3] - t.C * (tile_xsize - overlap)
    IN  /\ ZIndex(t.Z) = p[1]
        /\ 0 <= sy /\ sy < tile_ysize
        /\ 0 <= sx /\ sx < tile_xsize
        /\ At(img_stitched, p) = TilePixel(t.tileNumber, sy, sx)

C4_ExactComposite ==
    (CompleteGrid /\ img_stitched # <<>> /\ AllTasksDone) =>
        \A p \in Pixels :
            /\ At(writes, p) = 1
            /\ \E i \in DOMAIN XYZdata : FromTile(p, XYZdata[i])

\* A complete grid of two rows and three columns with overlap 16, placed.
C4_Witness ==
    /\ CompleteGrid /\ img_stitched # <<>> /\ AllTasksDone
    /\ Rows = {0, 1} /\ Cols = {0, 1, 2} /\ overlap = 16
    /\ pc = "ENCODING"

\* C5: after the job has ended, by success or by failure, its scratch file
\* is no longer in the output directory.
C5_ScratchReleased ==
    pc \in {"DONE", "FAILED"} => datFiles = {}

\* C6: when both overlaps were computed and they differ from each other or
\* from 16, the job has failed with the overlap error, no scratch canvas was
\* allocated, no tile was placed and no output was written.
OverlapMismatch ==
    /\ overlap_x # -1 /\ overlap_y # -1
    /\ (overlap_x # overlap_y \/ overlap_x # 16 \/ overlap_y # 16)

C6_MismatchFails ==
    OverlapMismatch =>
        /\ pc = "FAILED"
        /\ error = "Number of pixels of overlap in the x and y directions is not 16."
        /\ datFiles = {}
        /\ img_stitched = <<>>
        /\ done = {}
        /\ outputImage = "absent"

\* Position data implying 16 px along x and 10 px along y.
C6_Witness ==
    /\ overlap_x = 16 /\ overlap_y = 10
    /\ pc = "FAILED"

\* C7: the overlap computation was skipped exactly for the grids of a single
\* row and a single column; for every other grid that got past it the
\* overlap was computed and is the expected 16.
PastOverlap == pc \in {"ALLOCATING_CANVAS", "PLACING_TILES", "ENCODING", "DONE"}

C7_SkipOnlySingleStack ==
    PastOverlap =>
        IF Cardinality(Rows) = 1 /\ Cardinality(Cols) = 1
        THEN overlap_x = -1 /\ overlap = 0
        ELSE overlap_x = 16 /\ overlap_y = 16 /\ overlap = 16

\* C8: a table in which two tiles share (row, col, z) gets no further than
\* the overlap computation: the job fails there (with the duplicate error,
\* or with the overlap error when the steps of the table are off as well)
\* and no tile is placed.
C8_DuplicatesRejected ==
    ~UniquePositions =>
        /\ pc \in {"PARSING_METADATA", "COMPUTING_OVERLAP", "FAILED"}
        /\ pc = "FAILED" => error \in
            {"There are two or more tiles that belong to the same row and column.",
             "Number of pixels of overlap in the x and y directions is not 16."}
        /\ done = {}

\* C9: when exactly one tile file is missing (every other file as the
\* metadata says, positions unique), the job fails only for a reason that
\* has nothing to do with the tile (the overlap check, an I/O error of the
\* canvas or the container); and once all tasks have returned the
\* missing tile's destination is still at the fill value, exactly one log
\* entry names a tile, namely that one, and every other tile was written.
MissingTiles == {n \in DOMAIN files : ~files[n].present}

OneMissing ==
    /\ UniquePositions
    /\ Cardinality(MissingTiles) = 1
    /\ \A n \in DOMAIN files \ MissingTiles :
        files[n] = [present |-> TRUE, h |-> tile_ysize, w |-> tile_xsize]

TileEntries == {k \in DOMAIN flagged : flagged[k].kind = "tile"}

C9_MissingTileIsolated ==
    OneMissing =>
        /\ pc = "FAILED" => error \in
            {"OSError", "EncodeError",
             "Number of pixels of overlap in the x and y directions is not 16."}
        /\ pc = "DONE" => outputImage = "complete"
        /\ (img_stitched # <<>> /\ AllTasksDone) =>
            /\ Cardinality(TileEntries) = 1
            /\ \A k \in TileEntries : flagged[k].tile \in MissingTiles
            /\ \A i \in DOMAIN XYZdata : \A p \in Pixels :
                InRegion(p, placed[i]) =>
                    IF XYZdata[i].tileNumber \in MissingTiles
                    THEN At(img_stitched, p) = 0 /\ At(writes, p) = 0
                    ELSE At(writes, p) = 1

\* C10: a readable tile whose size is not the metadata's is never written:
\* once its task has returned its destination was assigned by no tile and a
\* log entry names it.
Missized(n) ==
    /\ files[n].present
    /\ <<files[n].h, files[n].w>> # <<tile_ysize, tile_xsize>>

C10_MissizedNotWritten ==
    UniquePositions =>
        \A i \in done :
            Missized(XYZdata[i].tileNumber) =>
                /\ \E k \in TileEntries : flagged[k].tile = XYZdata[i].tileNumber
                /\ \A p \in Pixels : InRegion(p, placed[i]) => At(writes, p) = 0

\* C11: once the loop has its list of mosaics the script gets to its end,
\* and by then every mosaic found was attempted and ended DONE or FAILED,
\* each failed one with an entry of its path and a reason in the log.
BatchOver ==
    /\ mainpc = "END"
    /\ Len(results) = Len(image_paths)
    /\ \A j \in DOMAIN results :
        /\ results[j] \in {"DONE", "FAILED"}
        /\ results[j] = "FAILED" =>
            \E k \in DOMAIN flagged :
                /\ flagged[k].kind = "job"
                /\ flagged[k].path = image_paths[j]
                /\ flagged[k].msg # ""

C11_BatchGoesOn == (mainpc = "LOOP") ~> BatchOver

\* A run whose first mosaic failed and whose second was written.
C11_Witness ==
    /\ BatchOver
    /\ Len(results) = 2
    /\ results[1] = "FAILED" /\ results[2] = "DONE"

\* C12 (amended): the script exits with status 1 before the loop when a
\* tile size is not positive, when the compression is none of
\* none/uncompressed/JPEG/JPEG2000, when the compression is JPEG or JPEG2000
\* and the quality is not positive, or when no position file is found.
CompressionName == replace(lower(args.compression), " ")

NothingFound == \A d \in DOMAIN tree : tree[d].xyz = "absent"

ExitsBeforeLoop ==
    /\ mainpc \in {"CHECKING_ARGUMENTS", "DISCOVERING", "EXITED"}
    /\ mainpc = "EXITED" => exit_status = 1
    /\ job = 0
    /\ pc = "NOT_STARTED"

C12_InvalidExits ==
    (\/ args.tile_size[1] <= 0
     \/ args.tile_size[2] <= 0
     \/ CompressionName \notin UncompressedNames \cup JpegNames
     \/ CompressionName \in JpegNames /\ args.quality <= 0
     \/ NothingFound) => ExitsBeforeLoop

\* JPEG with quality 0: the script has exited.
C12_Witness ==
    /\ CompressionName \in JpegNames /\ args.quality <= 0
    /\ mainpc = "EXITED" /\ exit_status = 1

\* C12 as stated: any quality that is not positive makes the script exit.
C12_Original ==
    (\/ args.tile_size[1] <= 0
     \/ args.tile_size[2] <= 0
     \/ CompressionName \notin UncompressedNames \cup JpegNames
     \/ args.quality <= 0
     \/ NothingFound) => ExitsBeforeLoop

\* C13: a job whose position file cannot be read, or has too few columns,
\* gets no further than reading it: it fails with the error of the read,
\* no scratch file of its own, no canvas and no tile task, and the script
\* stays in its loop.
BadMetadata == XYZfile \in {"missing", "unreadable", "badcolumns"}

LevelShape(k) == <<SubLevelSize_Integer(img_shape[2], k - 1),
                   SubLevelSize_Integer(img_shape[3], k - 1)>>

PlaneShape(plane) == <<Len(plane), Len(plane[1])>>

ClaimedSizesPositive ==
    /\ SubLevelSize_Integer(img_shape[2], args.pyramid_resolutions - 1) > 0
    /\ SubLevelSize_Integer(img_shape[3], args.pyramid_resolutions - 1) > 0

C14_LevelSizes ==
    (container # <<>> /\ args.pyramid_resolutions > 0 /\ ClaimedSizesPositive) =>
        /\ pc \in {"ENCODING", "DONE"}
        /\ pc = "DONE" => Len(levels) = args.pyramid_resolutions
        /\ \A k \in DOMAIN levels : \A n \in DOMAIN levels[k] :
               PlaneShape(levels[k][n]) = LevelShape(k)

\* C15: every sub-level after the first is the prior sub-level, resized to
\* its own size.
C15_FromPriorLevel ==
    \A k \in DOMAIN levels : \A n \in DOMAIN levels[k] :
        k > 1 =>
            levels[k][n] = resize(levels[k - 1][n],
                                  Len(levels[k][n][1]), Len(levels[k][n]))

\* C16 (amended): when the pyramid level count is 0 the written file has no
\* sub-level; with --debug it is written uncompressed under the debug name,
\* and without --debug with the codec asked for under the ordinary name.
WrittenFlat ==
    /\ mainpc \in {"LOOP", "END"}
    /\ args.pyramid_resolutions = 0
    /\ container # <<>>

C16_NoLevels ==
    WrittenFlat =>
        /\ levels = <<>>
        /\ container.subifds = 0
        /\ args.debug =>
            /\ container.compression = None
            /\ container.extension = "_debug.ome.tiff"
        /\ ~args.debug =>
            /\ container.compression =
                   validateCompression(args.compression, args.quality).value
            /\ container.extension = ".ome.tiff"

\* A mosaic written with JPEG and no sub-level, without --debug.
C16_Witness ==
    /\ WrittenFlat
    /\ pc = "DONE"
    /\ ~args.debug
    /\ container.compression = <<args.compression, args.quality>>

\* C16 as stated: with a level count of 0 the file is always written
\* uncompressed and under the marked name.
C16_Original ==
    WrittenFlat =>
        /\ levels = <<>>
        /\ container.compression = None
        /\ container.extension = "_debug.ome.tiff"

\* C17: with --debug, whatever else the command line says, every job is
\* written without sub-levels, uncompressed, under the debug name, and is
\* validated once its file is written; without --debug no job is validated.
C17_DebugForces ==
    /\ (args.debug /\ mainpc \in {"LOOP", "END"}) =>
        /\ args.pyramid_resolutions = 0
        /\ compression_parameter = None
        /\ outputExtension = "_debug.ome.tiff"
        /\ levels = <<>>
        /\ container # <<>> =>
            /\ container.subifds = 0
            /\ container.compression = None
            /\ container.extension = "_debug.ome.tiff"
        /\ pc = "VALIDATING" => outputImage = "complete" /\ ~validated
        /\ validated => outputImage = "complete" /\ pc \in {"DONE", "FAILED"}
        /\ pc = "DONE" => validated
    /\ ~args.debug => ~validated /\ pc # "VALIDATING"

\* A debug run asked for JPEG whose mosaic was written and validated.
C17_Witness ==
    /\ args.debug
    /\ CompressionName \in JpegNames
    /\ validated
    /\ pc = "DONE"
    /\ container.compression = None

\* C18: a job that was validated is DONE, whatever the validator found.
C18_ValidatorNeverFails == validated => pc = "DONE" /\ error = ""

\* C19: a validated job that is DONE has an entry of the validator in the
\* log when there is no reference, when a compared plane differs, and when
\* some plane of the output was not compared.
ValidatorEntries ==
    {k \in DOMAIN flagged : flagged[k].kind = "validator" /\ flagged[k].path = tiles_path}

OutputPlanes == 0..(img_shape[1] - 1)

C19_EveryPlaneChecked ==
    (validated /\ pc = "DONE") =>
        /\ ~reference.found => ValidatorEntries # {}
        /\ (\E i \in checked : ~reference.planes[i + 1].same) => ValidatorEntries # {}
        /\ checked # OutputPlanes => ValidatorEntries # {}

\* C20: a job moves through its phases in one order; a canvas exists only
\* when the overlaps, if computed, were accepted; and from the encoding on
\* every task was submitted and has run, each once, and the scratch file's
\* name is the one of this job.
PhaseSteps ==
    {<<"NOT_STARTED", "PARSING_METADATA">>,
     <<"PARSING_METADATA", "COMPUTING_OVERLAP">>,
     <<"COMPUTING_OVERLAP", "ALLOCATING_CANVAS">>,
     <<"ALLOCATING_CANVAS", "PLACING_TILES">>,
     <<"PLACING_TILES", "ENCODING">>,
     <<"ENCODING", "VALIDATING">>,
     <<"ENCODING", "DONE">>,
     <<"VALIDATING", "DONE">>,
     <<"DONE", "PARSING_METADATA">>,
     <<"FAILED", "PARSING_METADATA">>}
    \cup {<<p, "FAILED">> : p \in {"PARSING_METADATA", "COMPUTING_OVERLAP",
                                   "ALLOCATING_CANVAS", "PLACING_TILES", "ENCODING",
                                   "VALIDATING"}}

PhaseState ==
    /\ img_stitched # <<>> =>
        /\ pc \notin {"NOT_STARTED", "PARSING_METADATA", "COMPUTING_OVERLAP",
                      "ALLOCATING_CANVAS"}
        /\ OverlapComputed => overlap_x = ExpectedOverlap /\ overlap_y = ExpectedOverlap
    /\ pc \in {"NOT_STARTED", "PARSING_METADATA", "COMPUTING_OVERLAP",
               "ALLOCATING_CANVAS"} => submitted = 0 /\ done = {}
    /\ (pc \in {"ENCODING", "VALIDATING", "DONE"} \/ container # <<>>) =>
        /\ img_stitched # <<>>
        /\ submitted = Len(XYZdata)
        /\ done = DOMAIN XYZdata
        /\ temp_filename = filename
    /\ pc = "VALIDATING" \/ validated => container # <<>>

PhaseStep ==
    /\ pc' # pc => <<pc, pc'>> \in PhaseSteps
    /\ pc' # "PARSING_METADATA" =>
        /\ done \subseteq done'
        /\ \A i \in done : placed'[i] = placed[i]
        /\ Cardinality(done') <= Cardinality(done) + 1

C20_PhaseOrder == []PhaseState /\ [][PhaseStep]_vars

\* A mosaic of two tiles that went through every phase, the validator's
\* included.
C20_Witness ==
    /\ pc = "DONE"
    /\ validated
    /\ Len(XYZdata) = 2
    /\ done = {1, 2}

\* C21: in a table acquired in snake order with the spatial column in the
\* metadata, once every tile has its destination: the first-acquired tile
\* of an even row has the lowest x-range of its row, that of an odd row the
\* highest, and within every row the x-range starts increase strictly with
\* the column, each range ending where the next begins or before.
RowTiles(i) ==
    {j \in DOMAIN XYZdata : XYZdata[j].R = XYZdata[i].R /\ XYZdata[j].Z = XYZdata[i].Z}

FirstAcquired(i) ==
    \A j \in RowTiles(i) : XYZdata[i].tileNumber <= XYZdata[j].tileNumber

AllPlanned == DOMAIN placed = DOMAIN XYZdata

C21_SnakeOrder ==
    (AllPlanned /\ UniquePositions /\ FullAxes(XYZdata)) =>
        \A i \in DOMAIN XYZdata : \A j \in RowTiles(i) :
            /\ FirstAcquired(i) =>
                IF XYZdata[i].R % 2 = 0
                THEN placed[i].x0 <= placed[j].x0
                ELSE placed[i].x0 >= placed[j].x0
            /\ XYZdata[i].C < XYZdata[j].C =>
                /\ placed[i].x0 < placed[j].x0
                /\ placed[i].x0 + placed[i].w <= placed[j].x0

\* The 3 x 3 grid, with an overlap, every destination computed.
C21_Witness ==
    /\ AllPlanned
    /\ Len(XYZdata) = 9
    /\ Rows = {0, 1, 2} /\ Cols = {0, 1, 2}
    /\ overlap > 0
    /\ \E i \in DOMAIN XYZdata :
        XYZdata[i].R = 1 /\ FirstAcquired(i) /\ XYZdata[i].C = 2

\* C22 (amended): a tile of the last row is written whole in y to
\* [R*(h-o), (R+1)*(h-o)+o); a tile of another row loses its last o lines
\* and is written to [R*(h-o), (R+1)*(h-o)); so none of the o lines shared
\* by rows r and r+1 lies in the destination of the tile of row r, and all
\* of them lie in that of the tile of row r+1 when that row is the last or
\* the tile is at least 2*o high.
BandY(r) == {y \in 0..(img_shape[2] - 1) :
                r * (tile_ysize - overlap) <= y
                /\ y < r * (tile_ysize - overlap) + overlap}

InLines(pl, y) == pl.y0 <= y /\ y < pl.y0 + pl.h

Below(i) ==
    {j \in DOMAIN placed : /\ XYZdata[j].R = XYZdata[i].R + 1
                           /\ XYZdata[j].C = XYZdata[i].C
                           /\ XYZdata[j].Z = XYZdata[i].Z}

YRangeAsClaimed(i) ==
    LET R == XYZdata[i].R
        pl == placed[i]
    IN  /\ pl.y0 = R * (tile_ysize - overlap)
        /\ pl.cy0 = 0
        /\ pl.th = pl.h
        /\ pl.h = IF R = R_max THEN tile_ysize ELSE tile_ysize - overlap

C22_VerticalBand ==
    (UniquePositions /\ FullAxes(XYZdata)) =>
        \A i \in DOMAIN placed :
            /\ YRangeAsClaimed(i)
            /\ \A j \in Below(i) : \A y \in BandY(XYZdata[j].R) :
                /\ ~InLines(placed[i], y)
                /\ (XYZdata[j].R = R_max \/ tile_ysize >= 2 * overlap) =>
                    InLines(placed[j], y)

\* C22 as stated: the shared lines always lie in the destination of the
\* tile of row r+1.
C22_Original ==
    (UniquePositions /\ FullAxes(XYZdata)) =>
        \A i \in DOMAIN placed :
            /\ YRangeAsClaimed(i)
            /\ \A j \in Below(i) : \A y \in BandY(XYZdata[j].R) :
                /\ ~InLines(placed[i], y)
                /\ InLines(placed[j], y)

\* Three rows with an overlap, every destination computed.
C22_Witness ==
    /\ AllPlanned
    /\ UniquePositions /\ FullAxes(XYZdata)
    /\ Rows = {0, 1, 2}
    /\ overlap > 0 /\ tile_ysize >= 2 * overlap
    /\ BandY(1) # {} /\ BandY(2) # {}

\* C25: in an even row every tile but the one at Cmax loses its right o
\* columns, in an odd row every tile but the one at column 0 loses its left
\* o columns; so the o columns shared by columns c and c+1 lie in the
\* destination of the tile at c+1 in an even row and of the tile at c in an
\* odd row (when that tile is uncropped or at least 2*o wide), never in the
\* other one's, and that tile is the one acquired later.
BandX(c) == {x \in 0..(img_shape[3] - 1) :
                c * (tile_xsize - overlap) <= x
                /\ x < c * (tile_xsize - overlap) + overlap}

InColumns(pl, x) == pl.x0 <= x /\ x < pl.x0 + pl.w

RightOf(i) ==
    {j \in DOMAIN placed : /\ XYZdata[j].C = XYZdata[i].C + 1
                           /\ XYZdata[j].R = XYZdata[i].R
                           /\ XYZdata[j].Z = XYZdata[i].Z}

XRangeAsClaimed(i) ==
    LET C == XYZdata[i].C
        pl == placed[i]
        whole == IF XYZdata[i].R % 2 = 0 THEN C = C_max ELSE C = 0
    IN  /\ pl.w = IF whole THEN tile_xsize ELSE tile_xsize - overlap
        /\ pl.tw = pl.w
        /\ IF XYZdata[i].R % 2 = 0
           THEN pl.cx0 = 0 /\ pl.x0 = C * (tile_xsize - overlap)
           ELSE IF C = 0
           THEN pl.cx0 = 0 /\ pl.x0 = 0
           ELSE pl.cx0 = overlap /\ pl.x0 = C * (tile_xsize - overlap) + overlap

Whole(i) == placed[i].w = tile_xsize

C25_HorizontalBand ==
    (UniquePositions /\ FullAxes(XYZdata)) =>
        \A i \in DOMAIN placed :
            /\ XRangeAsClaimed(i)
            /\ \A j \in RightOf(i) :
                LET keeps == IF XYZdata[i].R % 2 = 0 THEN j ELSE i
                    loses == IF XYZdata[i].R % 2 = 0 THEN i ELSE j
                IN  /\ XYZdata[keeps].tileNumber > XYZdata[loses].tileNumber
                    /\ \A x \in BandX(XYZdata[j].C) :
                        /\ ~InColumns(placed[loses], x)
                        /\ (Whole(keeps) \/ tile_xsize >= 2 * overlap) =>
                            InColumns(placed[keeps], x)

\* Three columns and two rows with an overlap, every destination computed.
C25_Witness ==
    /\ AllPlanned
    /\ UniquePositions /\ FullAxes(XYZdata)
    /\ Cols = {0, 1, 2} /\ Rows = {0, 1}
    /\ overlap > 0 /\ tile_xsize >= 2 * overlap
    /\ BandX(1) # {} /\ BandX(2) # {}

\* C25 as stated: the shared columns always lie in the destination of the
\* tile acquired later.
C25_Original ==
    (UniquePositions /\ FullAxes(XYZdata)) =>
        \A i \in DOMAIN placed :
            /\ XRangeAsClaimed(i)
            /\ \A j \in RightOf(i) :
                LET keeps == IF XYZdata[i].R % 2 = 0 THEN j ELSE i
                    loses == IF XYZdata[i].R % 2 = 0 THEN i ELSE j
                IN  /\ XYZdata[keeps].tileNumber > XYZdata[loses].tileNumber
                    /\ \A x \in BandX(XYZdata[j].C) :
                        /\ ~InColumns(placed[loses], x)
                        /\ InColumns(placed[keeps], x)

\* C23: the placement insert_tile computed for a row of the table is the
\* one it computes in any later state of the job, is the same for any other
\* tile number and stage coordinates in that row, and two rows at the same
\* (row, col, z) have the same destination, and the same crop when their
\* tile files have the same size.
OtherStage == {0, 7}

Region(pl) == <<pl.z, pl.y0, pl.h, pl.x0, pl.w>>

SamePosition(i, j) ==
    /\ XYZdata[i].R = XYZdata[j].R
    /\ XYZdata[i].C = XYZdata[j].C
    /\ XYZdata[i].Z = XYZdata[j].Z

PlacementOf(t, i) ==
    Placement(t, files[XYZdata[i].tileNumber], R_max, C_max, ZIndex(XYZdata[i].Z),
              tile_xsize, tile_ysize, overlap, img_shape[2], img_shape[3])

C23_PlacementPure ==
    \A i \in DOMAIN placed :
        /\ placed[i] = TaskPlacement(i)
        /\ \A n \in 1..(MaxTiles + 1), x \in OtherStage, y \in OtherStage :
            PlacementOf([XYZdata[i] EXCEPT !.tileNumber = n, !.X = x, !.Y = y], i)
                = placed[i]
        /\ \A j \in DOMAIN placed :
            SamePosition(i, j) =>
                /\ Region(placed[i]) = Region(placed[j])
                /\ files[XYZdata[i].tileNumber] = files[XYZdata[j].tileNumber]
                    => placed[i] = placed[j]

\* Two tiles at one position were placed, one before and one after another
\* tile of the table.
C23_Witness ==
    \E i, j, k \in DOMAIN placed :
        /\ i # j /\ SamePosition(i, j)
        /\ XYZdata[i].tileNumber # XYZdata[j].tileNumber
        /\ ~SamePosition(i, k)
        /\ placed[i].ok /\ placed[j].ok /\ placed[k].ok
        /\ done # DOMAIN XYZdata

\* C30: a step in which an insert_tile call returns changes no pixel of the
\* canvas outside the call's destination, in its plane or another, and no
\* pixel at all when the call failed.
FrameKept ==
    (pc = "PLACING_TILES" /\ done' # done) =>
        \A i \in done' \ done : \A p \in Pixels :
            (~placed'[i].ok \/ ~InRegion(p, placed'[i])) =>
                At(img_stitched', p) = At(img_stitched, p)

C30_FrameEffect == [][FrameKept]_vars

\* A call has failed and another has written its tile, on a canvas of two
\* planes with pixels still at the fill value.
C30_Witness ==
    /\ pc = "PLACING_TILES"
    /\ img_shape[1] = 2
    /\ \E i, j \in done :
        /\ ~placed[i].ok
        /\ placed[j].ok
        /\ \E p \in Pixels : InRegion(p, placed[j]) /\ At(img_stitched, p) # FillValue
    /\ \E p \in Pixels : At(writes, p) = 0

\* C26: for a table with unique positions, whatever its row and column
\* labels, the y-range and the x-range insert_tile computed for a tile lie
\* inside the canvas.
InsideCanvas(i) ==
    LET yr == yRange(XYZdata[i].R, R_max, tile_ysize, overlap)
        xr == xRange(XYZdata[i].R, XYZdata[i].C, C_max, tile_xsize, overlap)
    IN  /\ 0 <= yr.start /\ yr.start < yr.stop /\ yr.stop <= img_shape[2]
        /\ 0 <= xr.start /\ xr.start < xr.stop /\ xr.stop <= img_shape[3]
        /\ placed[i].y0 = yr.start /\ placed[i].h = yr.stop - yr.start
        /\ placed[i].x0 = xr.start /\ placed[i].w = xr.stop - xr.start

C26_InsideCanvas ==
    UniquePositions => \A i \in DOMAIN placed : InsideCanvas(i)

\* C27: the plane a tile is written to is in 0..nz-1, tiles of a smaller z
\* value go to a lower plane and tiles of the same z value to the same one,
\* whatever the z labels; once all are placed every plane was used.
C27_PlaneIsRank ==
    /\ \A i \in DOMAIN placed :
        /\ placed[i].z \in 0..(nz - 1)
        /\ placed[i].z < img_shape[1]
        /\ \A j \in DOMAIN placed :
            /\ XYZdata[i].Z < XYZdata[j].Z <=> placed[i].z < placed[j].z
            /\ XYZdata[i].Z = XYZdata[j].Z <=> placed[i].z = placed[j].z
    /\ (placed # <<>> /\ DOMAIN placed = DOMAIN XYZdata) =>
        {placed[i].z : i \in DOMAIN placed} = 0..(nz - 1)

\* Two planes labelled 1 and 3, both placed.
C27_Witness ==
    /\ Zs = {1, 3}
    /\ DOMAIN placed = DOMAIN XYZdata
    /\ \E i, j \in DOMAIN placed :
        /\ XYZdata[i].Z = 1 /\ placed[i].z = 0 /\ placed[i].ok
        /\ XYZdata[j].Z = 3 /\ placed[j].z = 1 /\ placed[j].ok

\* C24: when a job is DONE, the output directory holds exactly one OME-TIFF
\* of its tile directory, complete, named after the directory with
\* .ome.tiff, or with _debug.ome.tiff under --debug.
OutputsOf(path) == {p \in DOMAIN output_dir : output_dir[p].source = path}

C24_OneNamedOutput ==
    (mainpc \in {"LOOP", "END"} /\ pc = "DONE") =>
        LET name == <<basename(tiles_path),
                      IF args.debug THEN "_debug.ome.tiff" ELSE ".ome.tiff">>
        IN  /\ OutputsOf(tiles_path) = {name}
            /\ output_dir[name].state = "complete"
            /\ outputImage = "complete"

\* The second mosaic of a debug run is DONE, and so was the first.
C24_Witness ==
    /\ args.debug
    /\ job = 2
    /\ pc = "DONE"
    /\ results = <<"DONE">>
    /\ Cardinality(DOMAIN output_dir) = 2
    /\ OutputsOf(tiles_path) = {<<"m2", "_debug.ome.tiff">>}

\* C28: at the end of a run every mosaic that ended DONE has a complete
\* output file of its own in the output directory.
C28_OwnOutputs ==
    mainpc = "END" =>
        \A j \in DOMAIN results :
            results[j] = "DONE" =>
                \E p \in OutputsOf(image_paths[j]) : output_dir[p].state = "complete"

\* C29: a job that has failed has left no output file.
C29_NoOutputOnFailure ==
    (mainpc \in {"LOOP", "END"} /\ pc = "FAILED") =>
        /\ outputImage = "absent"
        /\ OutputsOf(tiles_path) = {}

====
